---- MODULE Spec2Model ----
(***************************************************************************)
(* bskyrc: an IRC bot that relays chat commands to a Bluesky account.      *)
(*                                                                         *)
(* The module models                                                       *)
(*   - the command grammar recognizer (commands.ts): the regular           *)
(*     expressions are matched character by character with the leftmost,   *)
(*     greedy, backtracking discipline of the JavaScript engine;           *)
(*   - the dispatch layer (index.ts): the asynchronous "message" handler   *)
(*     with one step per await, and its module-level session state;        *)
(*   - the remote actions it calls (bluesky.ts): postToBluesky,            *)
(*     parseBlueskyUrl, deletePost, getLastPost, getPostFromUrl.           *)
(*                                                                         *)
(* A string is a sequence of one-character strings.                        *)
(***************************************************************************)
EXTENDS Integers, Sequences, FiniteSets, TLC

(***************************************************************************)
(* Characters and strings                                                  *)
(***************************************************************************)

UpperChars == << "A", "B", "C", "D", "E", "F", "G", "H", "I", "J", "K", "L", "M",
                 "N", "O", "P", "Q", "R", "S", "T", "U", "V", "W", "X", "Y", "Z" >>

LowerChars == << "a", "b", "c", "d", "e", "f", "g", "h", "i", "j", "k", "l", "m",
                 "n", "o", "p", "q", "r", "s", "t", "u", "v", "w", "x", "y", "z" >>

DigitChars == { "0", "1", "2", "3", "4", "5", "6", "7", "8", "9" }

\* the characters \s matches and trim() strips, among those a chat line can hold
WhiteSpace == { " ", "\t" }

\* the characters "." does not match
LineTerminators == { "\n", "\r" }

Range(f) == { f[x] : x \in DOMAIN f }

\* one character of String.prototype.toLowerCase
LowerChar(c) ==
    IF \E k \in 1..Len(UpperChars) : UpperChars[k] = c
    THEN LowerChars[CHOOSE k \in 1..Len(UpperChars) : UpperChars[k] = c]
    ELSE c

toLowerCase(s) == [k \in 1..Len(s) |-> LowerChar(s[k])]

RECURSIVE TrimStart(_)
TrimStart(s) ==
    IF s # << >> /\ Head(s) \in WhiteSpace THEN TrimStart(Tail(s)) ELSE s

RECURSIVE TrimEnd(_)
TrimEnd(s) ==
    IF s # << >> /\ s[Len(s)] \in WhiteSpace
    THEN TrimEnd(SubSeq(s, 1, Len(s) - 1))
    ELSE s

\* String.prototype.trim
trim(s) == TrimEnd(TrimStart(s))

\* whether sub occurs in s at position i
OccursAt(sub, s, i) ==
    /\ i >= 1
    /\ i + Len(sub) - 1 <= Len(s)
    /\ \A k \in 1..Len(sub) : s[i + k - 1] = sub[k]

\* String.prototype.indexOf, 1-based; 0 when sub does not occur
indexOf(s, sub) ==
    IF \E i \in 1..(Len(s) + 1) : OccursAt(sub, s, i)
    THEN CHOOSE i \in 1..(Len(s) + 1) :
            /\ OccursAt(sub, s, i)
            /\ \A j \in 1..(i - 1) : ~OccursAt(sub, s, j)
    ELSE 0

\* String.prototype.replace(sub, ""): the first occurrence of sub is removed
replaceFirst(s, sub) ==
    LET i == indexOf(s, sub)
    IN  IF i = 0 THEN s
        ELSE SubSeq(s, 1, i - 1) \o SubSeq(s, i + Len(sub), Len(s))

(***************************************************************************)
(* Regular expressions: all of the program's patterns carry the i flag.    *)
(* A pattern is a tree of nodes; M returns every way the node can match at *)
(* position i, in the order the backtracking engine tries them, so the     *)
(* head of the list is the match the engine reports.                       *)
(***************************************************************************)

\* one character, compared in lower case, inside (or outside) a class
Ch(c)       == [t |-> "c", cs |-> {LowerChar(c)}, neg |-> FALSE]
In(cs)      == [t |-> "c", cs |-> cs, neg |-> FALSE]
NotIn(cs)   == [t |-> "c", cs |-> cs, neg |-> TRUE]
Space       == In(WhiteSpace)
NonSpace    == NotIn(WhiteSpace)
Dot         == NotIn(LineTerminators)
Plus(r)     == [t |-> "plus", r |-> r]
Star(r)     == [t |-> "star", r |-> r]
Opt(r)      == [t |-> "opt", r |-> r]
Cat(rs)     == [t |-> "cat", rs |-> rs]
Alt(rs)     == [t |-> "alt", rs |-> rs]
Grp(r)      == [t |-> "grp", r |-> r]
Bol         == [t |-> "bol"]
Eol         == [t |-> "eol"]
Lit(s)      == Cat([k \in 1..Len(s) |-> Ch(s[k])])

InClass(r, c) == (LowerChar(c) \in r.cs) # r.neg

\* the number of consecutive characters of class r from position i on
RECURSIVE Run(_, _, _)
Run(r, s, i) ==
    IF i <= Len(s) /\ InClass(r, s[i]) THEN 1 + Run(r, s, i + 1) ELSE 0

RECURSIVE M(_, _, _, _), Expand(_, _, _, _), MCat(_, _, _, _), MAlt(_, _, _, _, _)

M(r, s, i, g) ==
    CASE r.t = "c" ->
            IF i <= Len(s) /\ InClass(r, s[i])
            THEN << [e |-> i + 1, g |-> g] >> ELSE << >>
      [] r.t = "plus" ->
            LET n == Run(r.r, s, i)
            IN  [k \in 1..n |-> [e |-> i + n - k + 1, g |-> g]]
      [] r.t = "star" ->
            LET n == Run(r.r, s, i)
            IN  [k \in 1..(n + 1) |-> [e |-> i + n - k + 1, g |-> g]]
      [] r.t = "opt" -> M(r.r, s, i, g) \o << [e |-> i, g |-> g] >>
      [] r.t = "cat" -> MCat(r.rs, 1, s, << [e |-> i, g |-> g] >>)
      [] r.t = "alt" -> MAlt(r.rs, 1, s, i, g)
      [] r.t = "grp" ->
            LET inner == M(r.r, s, i, g)
            IN  [k \in 1..Len(inner) |->
                    [e |-> inner[k].e, g |-> Append(inner[k].g, << i, inner[k].e >>)]]
      [] r.t = "bol" -> IF i = 1 THEN << [e |-> i, g |-> g] >> ELSE << >>
      [] r.t = "eol" -> IF i = Len(s) + 1 THEN << [e |-> i, g |-> g] >> ELSE << >>

\* node r tried after each of the partial matches, in their order
Expand(r, s, partial, k) ==
    IF k > Len(partial) THEN << >>
    ELSE M(r, s, partial[k].e, partial[k].g) \o Expand(r, s, partial, k + 1)

MCat(rs, j, s, partial) ==
    IF j > Len(rs) \/ partial = << >> THEN partial
    ELSE MCat(rs, j + 1, s, Expand(rs[j], s, partial, 1))

MAlt(rs, j, s, i, g) ==
    IF j > Len(rs) THEN << >>
    ELSE M(rs[j], s, i, g) \o MAlt(rs, j + 1, s, i, g)

NoMatch == [found |-> FALSE]

\* RegExp exec from position from on: the leftmost start wins, then the
\* first alternative of the backtracking order.  Group k of the match is
\* SubSeq(s, g[k][1], g[k][2] - 1); a group that took no part is absent.
RECURSIVE exec(_, _, _)
exec(re, s, from) ==
    IF from > Len(s) + 1 THEN NoMatch
    ELSE LET ms == M(re, s, from, << >>)
         IN  IF ms # << >>
             THEN [found |-> TRUE, from |-> from, to |-> ms[1].e, g |-> ms[1].g]
             ELSE exec(re, s, from + 1)

\* String.prototype.match with a pattern without the g flag
match(s, re) == exec(re, s, 1)

\* match[0] and match[k]
Matched(s, m) == SubSeq(s, m.from, m.to - 1)
Group(s, m, k) == SubSeq(s, m.g[k][1], m.g[k][2] - 1)
HasGroup(m, k) == k <= Len(m.g)

\* String.prototype.match with a g pattern: every match, left to right, each
\* search starting where the previous match ended (no pattern here matches
\* the empty string)
RECURSIVE matchAll(_, _, _)
matchAll(s, re, from) ==
    LET m == exec(re, s, from)
    IN  IF ~m.found THEN << >>
        ELSE << Matched(s, m) >> \o matchAll(s, re, m.to)

(***************************************************************************)
(* commands.ts                                                             *)
(***************************************************************************)

\* an optional value (a TypeScript "x?: T" field, or "T | null")
None == [some |-> FALSE]
Some(v) == [some |-> TRUE, v |-> v]

Null == [type |-> "null"]

kHttp   == << "h", "t", "t", "p" >>
kColon  == << ":", "/", "/" >>
kTwit   == << "t", "w", "i", "t" >>
kQuote  == << "q", "u", "o", "t", "e" >>
kReply  == << "r", "e", "p", "l", "y" >>
kUntwit == << "u", "n", "t", "w", "i", "t" >>
kSup    == << "s", "u", "p" >>
kSeen   == << "s", "e", "e", "n" >>
kBskyProfile == << "b", "s", "k", "y", ".", "a", "p", "p", "/",
                   "p", "r", "o", "f", "i", "l", "e", "/" >>
kPost   == << "/", "p", "o", "s", "t", "/" >>

\* /https?:\/\/\S+\.(jpg|jpeg|png|gif|webp|bmp)(\?\S*)?/gi
imageExtPattern ==
    Cat(<< Lit(kHttp), Opt(Ch("s")), Lit(kColon), Plus(NonSpace), Ch("."),
           Grp(Alt(<< Lit(<< "j", "p", "g" >>), Lit(<< "j", "p", "e", "g" >>),
                      Lit(<< "p", "n", "g" >>), Lit(<< "g", "i", "f" >>),
                      Lit(<< "w", "e", "b", "p" >>), Lit(<< "b", "m", "p" >>) >>)),
           Opt(Grp(Cat(<< Ch("?"), Star(NonSpace) >>))) >>)

\* /https?:\/\/\S+/gi
urlPattern == Cat(<< Lit(kHttp), Opt(Ch("s")), Lit(kColon), Plus(NonSpace) >>)

\* /^twit\s+(.+)$/i
twitPattern == Cat(<< Bol, Lit(kTwit), Plus(Space), Grp(Plus(Dot)), Eol >>)

\* /^quote\s+(\S+)(?:\s+(.+))?$/i
quotePattern ==
    Cat(<< Bol, Lit(kQuote), Plus(Space), Grp(Plus(NonSpace)),
           Opt(Cat(<< Plus(Space), Grp(Plus(Dot)) >>)), Eol >>)

\* /^reply\s+(.+)$/i
replyPattern == Cat(<< Bol, Lit(kReply), Plus(Space), Grp(Plus(Dot)), Eol >>)

\* /^untwit!$/i and /^untwit$/i
untwitForcePattern == Cat(<< Bol, Lit(kUntwit), Ch("!"), Eol >>)
untwitPattern == Cat(<< Bol, Lit(kUntwit), Eol >>)

\* /^sup\s+(\S+)$/i
supPattern == Cat(<< Bol, Lit(kSup), Plus(Space), Grp(Plus(NonSpace)), Eol >>)

\* /https?:\/\/bsky\.app\/profile\/[^/\s]+\/post\/[a-z0-9]+/i
bskyUrlPattern ==
    Cat(<< Lit(kHttp), Opt(Ch("s")), Lit(kColon), Lit(kBskyProfile),
           Plus(NotIn({"/"} \cup WhiteSpace)), Lit(kPost),
           Plus(In(Range(LowerChars) \cup DigitChars)) >>)

\* the urls of text that carry no image extension, each of which isImageUrl
\* probes with a HEAD request
urlsToCheck(text) ==
    LET urlsWithExtensions == matchAll(text, imageExtPattern, 1)
        allUrls == matchAll(text, urlPattern, 1)
    IN  SelectSeq(allUrls, LAMBDA url : url \notin Range(urlsWithExtensions))

RECURSIVE RemoveEach(_, _, _)
RemoveEach(text, urls, k) ==
    IF k > Len(urls) THEN text
    ELSE RemoveEach(replaceFirst(text, urls[k]), urls, k + 1)

\* urlsWithMimeImages: the urls of toCheck that isImageUrl finds to be
\* images; mimeChecks[k] is its answer for the k-th of them (false as well
\* when the probe fails)
urlsWithMimeImages(toCheck, mimeChecks) ==
    LET isImage == SelectSeq([k \in 1..Len(toCheck) |-> k], LAMBDA k : mimeChecks[k])
    IN  [k \in 1..Len(isImage) |-> toCheck[isImage[k]]]

\* the result of extractImageUrls once allImageUrls is known
Extracted(text, allImageUrls) ==
    [cleanText |-> trim(RemoveEach(text, allImageUrls, 1)),
     imageUrls |-> IF Len(allImageUrls) > 0 THEN Some(allImageUrls) ELSE None]

extractImageUrls(text, mimeChecks) ==
    Extracted(text, matchAll(text, imageExtPattern, 1)
                        \o urlsWithMimeImages(urlsToCheck(text), mimeChecks))

\* the command of a twit or a reply whose text extractImageUrls turned into x
TextCommand(type, x) == [type |-> type, text |-> x.cleanText, imageUrls |-> x.imageUrls]

parseTwitCommand(message, mimeChecks) ==
    LET m == match(message, twitPattern)
    IN  IF ~m.found THEN Null
        ELSE TextCommand("twit", extractImageUrls(Group(message, m, 1), mimeChecks))

\* the quote command with additional text, which extractImageUrls turned
\* into x
QuoteCommand(targetNick, x) ==
    [type |-> "quote", targetNick |-> targetNick,
     additionalText |-> IF x.cleanText # << >> THEN Some(x.cleanText) ELSE None,
     imageUrls |-> x.imageUrls]

\* parseQuoteCommand after its match m
Quoted(message, m, mimeChecks) ==
    IF ~m.found THEN Null
    ELSE IF HasGroup(m, 2) /\ Group(message, m, 2) # << >>
    THEN QuoteCommand(Group(message, m, 1),
                      extractImageUrls(trim(Group(message, m, 2)), mimeChecks))
    ELSE [type |-> "quote", targetNick |-> Group(message, m, 1),
          additionalText |-> None, imageUrls |-> None]

parseQuoteCommand(message, mimeChecks) ==
    Quoted(message, match(message, quotePattern), mimeChecks)

parseReplyCommand(message, mimeChecks) ==
    LET m == match(message, replyPattern)
    IN  IF ~m.found THEN Null
        ELSE TextCommand("reply", extractImageUrls(Group(message, m, 1), mimeChecks))

\* parseUntwitCommand with patterns that lack the end anchor
parseUntwitCommandPrefix(message) ==
    IF match(message, Cat(<< Bol, Lit(kUntwit), Ch("!") >>)).found
    THEN [type |-> "untwit", force |-> TRUE]
    ELSE IF match(message, Cat(<< Bol, Lit(kUntwit) >>)).found
    THEN [type |-> "untwit", force |-> FALSE]
    ELSE Null

\* parseUntwitCommand with patterns that let blanks follow
parseUntwitCommandBlanks(message) ==
    IF match(message, Cat(<< Bol, Lit(kUntwit), Ch("!"), Star(Space), Eol >>)).found
    THEN [type |-> "untwit", force |-> TRUE]
    ELSE IF match(message, Cat(<< Bol, Lit(kUntwit), Star(Space), Eol >>)).found
    THEN [type |-> "untwit", force |-> FALSE]
    ELSE Null

parseUntwitCommand(message) ==
    IF match(message, untwitForcePattern).found
    THEN [type |-> "untwit", force |-> TRUE]
    ELSE IF match(message, untwitPattern).found
    THEN [type |-> "untwit", force |-> FALSE]
    ELSE Null

\* parseSupCommand accepting any first word
parseSupCommandAnyWord(message) ==
    LET m == match(message, Cat(<< Bol, Plus(NonSpace), Plus(Space), Grp(Plus(NonSpace)), Eol >>))
    IN  IF ~m.found THEN Null
        ELSE [type |-> "sup", handle |-> Group(message, m, 1)]

parseSupCommand(message) ==
    LET m == match(message, supPattern)
    IN  IF ~m.found THEN Null
        ELSE [type |-> "sup", handle |-> Group(message, m, 1)]

\* seen <nick>: the keyword, one whitespace run, and a rest that, trimmed, is
\* exactly one token
seenPattern == Cat(<< Bol, Lit(kSeen), Plus(Space), Grp(Star(Dot)), Eol >>)

SeenCommand(nick) ==
    IF nick # << >> /\ \A k \in 1..Len(nick) : nick[k] \notin WhiteSpace
    THEN [type |-> "seen", targetNick |-> nick]
    ELSE Null

\* parseSeenCommand taking the first token and ignoring what follows it
parseSeenCommandFirstToken(message) ==
    LET m == match(message, Cat(<< Bol, Lit(kSeen), Plus(Space), Grp(Plus(NonSpace)) >>))
    IN  IF ~m.found THEN Null ELSE SeenCommand(Group(message, m, 1))

parseSeenCommand(message) ==
    LET m == match(message, seenPattern)
    IN  IF ~m.found THEN Null ELSE SeenCommand(trim(Group(message, m, 1)))

\* extractBlueskyUrl with its pattern anchored at the start of the line
extractBlueskyUrlAnchored(message) ==
    LET m == match(message, Cat(<< Bol, bskyUrlPattern >>))
    IN  IF m.found THEN Some(Matched(message, m)) ELSE None

extractBlueskyUrl(message) ==
    LET m == match(message, bskyUrlPattern)
    IN  IF m.found THEN Some(Matched(message, m)) ELSE None

\* the text whose urls parseCommand probes for message: the argument of the
\* first of twit, quote, reply that matches
ProbedQuote(message, q) ==
    IF ~q.found THEN None
    ELSE IF HasGroup(q, 2) THEN Some(trim(Group(message, q, 2))) ELSE Some(<< >>)

ProbedText(message) ==
    LET t == match(message, twitPattern)
        r == match(message, replyPattern)
    IN  IF t.found THEN Group(message, t, 1)
        ELSE IF ProbedQuote(message, match(message, quotePattern)).some
        THEN ProbedQuote(message, match(message, quotePattern)).v
        ELSE IF r.found THEN Group(message, r, 1)
        ELSE << >>

\* every outcome of the probes parseCommand issues for message
MimeChecks(message) == [1..Len(urlsToCheck(ProbedText(message))) -> BOOLEAN]

\* "if (cmd) return cmd": cmd unless it is null, else what the rules after
\* it return
OrElse(cmd, rest) == IF cmd # Null THEN cmd ELSE rest

parseCommand(message, mimeChecks) ==
    OrElse(parseTwitCommand(message, mimeChecks),
    OrElse(parseQuoteCommand(message, mimeChecks),
    OrElse(parseReplyCommand(message, mimeChecks),
    OrElse(parseUntwitCommand(message),
    OrElse(parseSupCommand(message),
           parseSeenCommand(message))))))

(***************************************************************************)
(* bluesky.ts: the remote service holds the bot account's feed, oldest     *)
(* post first.  A remote call succeeds when the service is reachable.      *)
(* and throws otherwise.                                                   *)
(***************************************************************************)

\* constants.ts
ONE_HOUR_MS == 3600000
BLUESKY_APP_URL == kHttp \o << "s" >> \o kColon \o << "b", "s", "k", "y", ".", "a", "p", "p" >>

\* /https?:\/\/bsky\.app\/profile\/([^/]+)\/post\/([^/\s]+)/i
parseUrlPattern ==
    Cat(<< Lit(kHttp), Opt(Ch("s")), Lit(kColon), Lit(kBskyProfile),
           Grp(Plus(NotIn({"/"}))), Lit(kPost),
           Grp(Plus(NotIn({"/"} \cup WhiteSpace))) >>)

\* parseBlueskyUrl: the reply target the url names, once the service has
\* resolved the handle and fetched the post
parseBlueskyUrl(reachable, url) ==
    LET m == match(url, parseUrlPattern)
    IN  IF m.found /\ reachable
        THEN Some([handle |-> Group(url, m, 1), rkey |-> Group(url, m, 2)])
        ELSE None

\* every image url, however many
urlsToEmbedAll(imageUrls) == IF imageUrls.some THEN imageUrls.v ELSE << >>

\* the last four image urls
urlsToEmbedLastFour(imageUrls) ==
    IF imageUrls.some
    THEN SubSeq(imageUrls.v, IF Len(imageUrls.v) < 4 THEN 1 ELSE Len(imageUrls.v) - 3,
                Len(imageUrls.v))
    ELSE << >>

\* bluesky supports up to 4 images per post
urlsToEmbed(imageUrls) ==
    IF imageUrls.some THEN SubSeq(imageUrls.v, 1, IF Len(imageUrls.v) < 4 THEN Len(imageUrls.v) ELSE 4)
    ELSE << >>

\* postToBluesky: the post agent.post creates
NewPost(uri, text, imageUrls, replyTo, t) ==
    [uri |-> uri, text |-> text, images |-> urlsToEmbed(imageUrls),
     reply |-> replyTo, indexedAt |-> t]

FeedUris(f) == { f[k].uri : k \in 1..Len(f) }
PostOf(f, uri) == f[CHOOSE k \in 1..Len(f) : f[k].uri = uri]

\* agent.deletePost
RemovePost(f, uri) == SelectSeq(f, LAMBDA p : p.uri # uri)

\* deletePost without its recency guard
DeleteTargetAnyAge(reachable, f, uri, timestamp, forceDelete, t) ==
    LET cached == uri.some
        found == IF cached THEN TRUE ELSE reachable /\ Len(f) > 0
        postUri == IF cached THEN uri.v ELSE f[Len(f)].uri
        postText ==
            IF cached
            THEN IF reachable /\ uri.v \in FeedUris(f)
                 THEN Some(PostOf(f, uri.v).text) ELSE None
            ELSE Some(f[Len(f)].text)
    IN  IF ~found THEN None ELSE Some([uri |-> postUri, text |-> postText])

\* deletePost, up to its recency guard: the post it is about to delete, or
\* failure.  uri and timestamp are the caller's lastPostUri and
\* lastPostTimestamp, t is Date.now() at the guard.
DeleteTarget(reachable, f, uri, timestamp, forceDelete, t) ==
    LET cached == uri.some
        found == IF cached THEN TRUE ELSE reachable /\ Len(f) > 0
        postUri == IF cached THEN uri.v ELSE f[Len(f)].uri
        postTimestamp == IF cached THEN timestamp ELSE Some(f[Len(f)].indexedAt)
        postText ==
            IF cached
            THEN IF reachable /\ uri.v \in FeedUris(f)
                 THEN Some(PostOf(f, uri.v).text) ELSE None
            ELSE Some(f[Len(f)].text)
    IN  IF ~found THEN None
        ELSE IF ~forceDelete /\ postTimestamp.some /\ postTimestamp.v # 0
                /\ t - postTimestamp.v > ONE_HOUR_MS
        THEN None
        ELSE Some([uri |-> postUri, text |-> postText])

\* normalizeHandle
normalizeHandle(handle) ==
    IF "." \in Range(handle) THEN handle
    ELSE handle \o << ".", "b", "s", "k", "y", ".", "s", "o", "c", "i", "a", "l" >>

\* the url getLastPost builds for the latest post of handle
LastPostUrl(handle, rkey) ==
    BLUESKY_APP_URL \o << "/", "p", "r", "o", "f", "i", "l", "e", "/" >>
        \o normalizeHandle(handle) \o kPost \o rkey

(***************************************************************************)
(* Bounds and inputs                                                       *)
(***************************************************************************)

\* in-channel lines delivered in one behaviour
MaxLines == 3
\* handler executions in progress at once
MaxInFlight == 2
\* in-channel lines delivered in one behaviour in which lines may overlap
MaxOverlapped == 2
\* clock advances in one behaviour
MaxTicks == 1
\* Date.now() when the bot starts
StartTime == 1000

BotNick == << "b", "o", "t" >>
Channel == << "#", "c" >>
Nicks == { << "T", "i", "m" >> }

sp == << " " >>
kUrl == kHttp \o kColon \o << "x" >>
kPng == << ".", "p", "n", "g" >>
Url1 == kHttp \o << "s" >> \o kColon \o kBskyProfile \o << "a" >> \o kPost \o << "1" >>
Url2 == kHttp \o << "s" >> \o kColon \o kBskyProfile \o << "b" >> \o kPost \o << "2" >>

\* the lines the users send
ChatLines ==
    { << "h", "i" >>,
      kTwit \o sp \o kUrl \o kPng \o sp,
      kTwit \o sp \o Url2,
      kTwit \o sp \o kUrl \o << "1" >> \o kPng \o sp \o kUrl \o << "2" >> \o kPng
            \o sp \o kUrl \o << "3" >> \o kPng \o sp \o kUrl \o << "4" >> \o kPng
            \o sp \o kUrl \o << "5" >> \o kPng,
      kQuote \o sp \o << "T", "I", "M" >>,
      kQuote \o sp \o << "t", "i", "m" >> \o sp \o << "a" >>,
      kReply \o sp \o << "b" >>,
      kUntwit,
      kUntwit \o << "!" >>,
      kSup \o sp \o << "h" >>,
      kSeen \o sp \o << "a", "l" >>,
      Url1 }

\* the lines fed to the url tracking on its own
TrackLines ==
    { << "h", "i" >>,
      Url1,
      << "a" >> \o sp \o Url2 \o << "!" >>,
      Url2 \o sp \o Url1,
      kHttp \o kColon \o << "B", "S", "K", "Y", ".", "a", "p", "p", "/",
                            "p", "r", "o", "f", "i", "l", "e", "/" >>
            \o << "A", "." >> \o kPost \o << "Z", "9" >>,
      kHttp \o << "s" >> \o kColon \o kBskyProfile \o << "a" >> \o kPost,
      kHttp \o << "s" >> \o kColon \o kBskyProfile \o kPost \o << "1" >>,
      kHttp \o << "s" >> \o kColon \o kBskyProfile \o << "a", "/", "b" >> \o kPost \o << "1" >> }

\* the post the account holds when the bot starts
OldPost == NewPost(0, << "o", "l", "d" >>, None, None, StartTime)

(***************************************************************************)
(* State                                                                   *)
(***************************************************************************)

VARIABLES
    messageHistory,     \* index.ts: lower-cased nick -> text
    lastPostUri,        \* index.ts: optional uri
    lastPostTimestamp,  \* index.ts: optional Date.now()
    lastBskyUrl,        \* index.ts: optional url
    seenDb,             \* seen.ts: the rows of the seen table
    h,                  \* the message handler executions in progress
    last,               \* the execution that ended in the last step, if any
    feed,               \* the bot account's posts, oldest first
    posted,             \* the posts the account has created so far
    now,                \* Date.now()
    lines,              \* in-channel lines delivered
    ticks,              \* clock advances
    wantHistory,        \* the history the lines ended so far call for
    observed,           \* the post link observed most recently
    input, checks, output,  \* parseCommand's argument, probe answers, result
    fed, tracked,       \* the lines fed to extractBlueskyUrl, the caller's url
    updates,            \* the updateSeen calls made on the seen table alone
    text, probes,       \* extractImageUrls' argument and isImageUrl's answers
    extracted, again,   \* its result, and its result for the residual text
    probing, settled,   \* the urls whose probes are issued, the answers so far
    lastSeenNotificationTime,   \* index.ts: optional indexedAt
    currentPollInterval,        \* index.ts: ms before the next poll
    consecutiveErrors,          \* index.ts
    poll,               \* the pollNotifications executions, scheduled or running
    inbox,              \* the account's notifications, newest first
    echoed,             \* the notifications said to the channel, in order
    joins,              \* join events of the bot's own nick
    failures,           \* the polls that ended in the catch block
    succeeded,          \* whether a poll has completed without an error
    polled,             \* the poll that finished in the last step, if any
    late                \* the notifications that came after the first good poll

botVars == << messageHistory, lastPostUri, lastPostTimestamp, lastBskyUrl, seenDb,
              h, last, feed, posted, now, lines, ticks, wantHistory, observed >>
parseVars == << input, checks, output >>
trackVars == << fed, tracked >>
seenVars == << updates >>
extractVars == << text, probes, extracted, again, probing, settled >>
pollVars == << lastSeenNotificationTime, currentPollInterval, consecutiveErrors,
              poll, inbox, echoed, joins, failures, succeeded, polled, late >>
vars == << botVars, parseVars, trackVars, seenVars, extractVars, pollVars >>

NoLast == [done |-> FALSE]
NoPoll == [done |-> FALSE]

\* index.ts, lines 1006-1007
POLL_INTERVAL_BASE == 30000
POLL_INTERVAL_MAX == 600000
Pending == [type |-> "pending"]

Say(word) == [say |-> word]

InitBot ==
    /\ messageHistory = << >>
    /\ lastPostUri = None
    /\ lastPostTimestamp = None
    /\ lastBskyUrl = None
    /\ seenDb = {}
    /\ h = << >>
    /\ last = NoLast
    /\ feed = << OldPost >>
    /\ posted = 0
    /\ now = StartTime
    /\ lines = 0
    /\ ticks = 0
    /\ wantHistory = << >>
    /\ observed = None

InitParse == input = << >> /\ checks = << >> /\ output = Pending
InitTrack == fed = << >> /\ tracked = None

InitSeen == updates = << >>

InitExtract ==
    /\ text = << >> /\ probes = << >> /\ extracted = Pending /\ again = Pending
    /\ probing = << >> /\ settled = << >>

\* index.ts, lines 1002-1010
InitPoll ==
    /\ lastSeenNotificationTime = None
    /\ currentPollInterval = POLL_INTERVAL_BASE
    /\ consecutiveErrors = 0
    /\ poll = << >>
    /\ inbox = << >>
    /\ echoed = << >>
    /\ joins = 0
    /\ failures = 0
    /\ succeeded = FALSE
    /\ polled = NoPoll
    /\ late = {}

Init == InitBot /\ InitParse /\ InitTrack /\ InitSeen /\ InitExtract /\ InitPoll

\* Map.prototype.set and get
MapSet(map, key, value) == [k \in DOMAIN map \cup {key} |-> IF k = key THEN value ELSE map[k]]
MapGet(map, key) == IF key \in DOMAIN map THEN Some(map[key]) ELSE None

\* INSERT INTO seen ... ON CONFLICT(who) DO UPDATE SET ...: who is the
\* table's primary key
Upsert(db, row) ==
    IF \E r \in db : r.who = row.who
    THEN { IF r.who = row.who THEN row ELSE r : r \in db }
    ELSE db \cup { row }

\* updateSeen that stores the nick as it is written
updateSeenAsWritten(db, nick, message, channel, t) ==
    Upsert(db, [who |-> nick, what |-> message, where |-> channel,
                when |-> t \div 1000])

\* updateSeen
updateSeen(db, nick, message, channel, t) ==
    Upsert(db, [who |-> toLowerCase(nick), what |-> message, where |-> channel,
                when |-> t \div 1000])

\* getSeen: SELECT ... WHERE who = ?
getSeen(db, nick) ==
    LET result == { r \in db : r.who = toLowerCase(nick) }
    IN  IF result = {} THEN None ELSE Some(CHOOSE r \in result : TRUE)

(***************************************************************************)
(* Specification side: what the lines, as the users see them, call for     *)
(***************************************************************************)

\* u has the canonical post-link shape scheme://bsky.app/profile/{id}/post/{id}
IsPostUrl(u) ==
    \E scheme \in { kHttp, kHttp \o << "s" >> } :
        LET pre == scheme \o kColon \o kBskyProfile
        IN  /\ Len(u) > Len(pre)
            /\ toLowerCase(SubSeq(u, 1, Len(pre))) = pre
            /\ \E k \in (Len(pre) + 1)..(Len(u) - Len(kPost) - 1) :
                /\ \A j \in (Len(pre) + 1)..k : u[j] \notin {"/"} \cup WhiteSpace
                /\ toLowerCase(SubSeq(u, k + 1, k + Len(kPost))) = kPost
                /\ \A j \in (k + Len(kPost) + 1)..Len(u) :
                        LowerChar(u[j]) \in Range(LowerChars) \cup DigitChars

PostUrlSpans(line) ==
    { ij \in (1..Len(line)) \X (1..Len(line)) : IsPostUrl(SubSeq(line, ij[1], ij[2])) }

ContainsPostUrl(line) == PostUrlSpans(line) # {}

\* the first post link of a line: the leftmost, taken as far as it goes
FirstPostUrl(line) ==
    LET ij == CHOOSE x \in PostUrlSpans(line) :
                \A y \in PostUrlSpans(line) :
                    x[1] < y[1] \/ (x[1] = y[1] /\ x[2] >= y[2])
    IN  SubSeq(line, ij[1], ij[2])

\* a nick has history when a non-empty text is stored for it
HasHistory(history, nick) ==
    toLowerCase(nick) \in DOMAIN history /\ history[toLowerCase(nick)] # << >>

\* the history after a line of nick, trimmed to msg and recognized as cmd
HistoryAfter(history, nick, msg, cmd) ==
    IF cmd.type = "twit" THEN MapSet(history, toLowerCase(nick), cmd.text)
    ELSE IF cmd.type = "null"
            \/ (cmd.type = "quote" /\ ~HasHistory(history, cmd.targetNick))
    THEN MapSet(history, toLowerCase(nick), msg)
    ELSE history

\* the first post link of each line the users send, if it has one
PostUrls ==
    { [line |-> line,
       url |-> IF ContainsPostUrl(line) THEN Some(FirstPostUrl(line)) ELSE None] :
      line \in ChatLines \cup { trim(l) : l \in ChatLines } \cup TrackLines }
PostUrl(line) == (CHOOSE p \in PostUrls : p.line = line).url

(***************************************************************************)
(* index.ts: the "message" handler, one action per await                   *)
(***************************************************************************)

InFlight == DOMAIN h
FreeSlot == CHOOSE id \in 1..(Cardinality(InFlight) + 1) : id \notin InFlight

Drop(id) == [k \in InFlight \ {id} |-> h[k]]
Put(id, rec) == [k \in InFlight \cup {id} |-> IF k = id THEN rec ELSE h[k]]

\* the nick as it is, as the key
HistoryKeyAsIs(nick) == nick

\* the key of a nick in messageHistory
HistoryKey(nick) == toLowerCase(nick)

\* the handler record while it awaits the call named by pc; calls tells of
\* each remote call made so far whether it was answered
Await(id, cmd, calls, pc, args) ==
    [nick |-> h[id].nick, msg |-> h[id].msg, cmd |-> cmd, calls |-> calls,
     out |-> h[id].out, pc |-> pc, args |-> args]

\* the remote calls of the handler once one more has been answered or not
Calls(id, answered) == Append(h[id].calls, answered)

\* the handler returns having said the messages says; url is the post link
\* it used, uri the post it created or deleted
Return(id, cmd, calls, url, uri, says) ==
    /\ h' = Drop(id)
    /\ last' = [done |-> TRUE, nick |-> h[id].nick, msg |-> h[id].msg, cmd |-> cmd,
                calls |-> calls, url |-> url, uri |-> uri, out |-> h[id].out \o says]
    /\ wantHistory' = HistoryAfter(wantHistory, h[id].nick, h[id].msg, cmd)

Continue(id, rec) ==
    /\ h' = Put(id, rec)
    /\ last' = NoLast
    /\ UNCHANGED wantHistory

\* a message event the handler returned from at once
Passed(nick, target) == [done |-> FALSE, ignored |-> TRUE, nick |-> nick, target |-> target]

\* the handler notes every message in the seen table before it looks at the
\* nick and the target
SeenThenIgnored(nick, target) ==
    /\ nick = BotNick \/ target # Channel
    /\ seenDb' = updateSeen(seenDb, nick, << >>, target, now)
    /\ last' = Passed(nick, target)
    /\ UNCHANGED << messageHistory, lastPostUri, lastPostTimestamp, lastBskyUrl,
                    h, feed, posted, now, lines, ticks, wantHistory, observed >>
    /\ UNCHANGED << parseVars, trackVars, seenVars, pollVars, extractVars >>

\* lines 1149-1155: our own messages and messages outside the channel
Ignored(nick, target) ==
    /\ nick = BotNick \/ target # Channel
    /\ last' = Passed(nick, target)
    /\ UNCHANGED << messageHistory, lastPostUri, lastPostTimestamp, lastBskyUrl, seenDb,
                    h, feed, posted, now, lines, ticks, wantHistory, observed >>
    /\ UNCHANGED << parseVars, trackVars, seenVars, pollVars, extractVars >>

\* the handler without its call of updateSeen
MessageUnseen(nick, target, message) ==
    /\ nick # BotNick
    /\ target = Channel
    /\ lines < MaxLines
    /\ Cardinality(InFlight) < MaxInFlight
    /\ h' = Put(FreeSlot, [nick |-> nick, msg |-> trim(message), cmd |-> Pending,
                           calls |-> << >>, out |-> << >>, pc |-> "parse",
                           args |-> << >>])
    /\ lines' = lines + 1
    /\ last' = NoLast
    /\ observed' = IF PostUrl(message).some THEN PostUrl(message) ELSE observed
    /\ UNCHANGED << messageHistory, lastPostUri, lastPostTimestamp, lastBskyUrl,
                    feed, posted, now, ticks, wantHistory, seenDb >>
    /\ UNCHANGED << parseVars, trackVars, seenVars, pollVars, extractVars >>

\* lines 1149-1164: up to the await of parseCommand
Message(nick, target, message) ==
    /\ nick # BotNick
    /\ target = Channel
    /\ lines < MaxLines
    /\ Cardinality(InFlight) < MaxInFlight
    /\ seenDb' = updateSeen(seenDb, nick, message, target, now)
    /\ h' = Put(FreeSlot, [nick |-> nick, msg |-> trim(message), cmd |-> Pending,
                           calls |-> << >>, out |-> << >>, pc |-> "parse",
                           args |-> << >>])
    /\ lines' = lines + 1
    /\ last' = NoLast
    /\ observed' = IF PostUrl(message).some THEN PostUrl(message) ELSE observed
    /\ UNCHANGED << messageHistory, lastPostUri, lastPostTimestamp, lastBskyUrl,
                    feed, posted, now, ticks, wantHistory >>
    /\ UNCHANGED << parseVars, trackVars, seenVars, pollVars, extractVars >>

\* lines 1276-1288: the line is no command, or a quote without history
Untracked(id, cmd) ==
    LET bskyUrl == extractBlueskyUrl(h[id].msg)
    IN  IF bskyUrl.some
        THEN /\ lastBskyUrl' = bskyUrl
             /\ Continue(id, Await(id, cmd, h[id].calls, "show", [url |-> bskyUrl]))
             /\ UNCHANGED messageHistory
        ELSE /\ messageHistory' = MapSet(messageHistory, HistoryKey(h[id].nick), h[id].msg)
             /\ Return(id, cmd, h[id].calls, None, None, << >>)
             /\ UNCHANGED lastBskyUrl

\* the frame of a step of the handler: what no step of it writes
HandlerFrame ==
    /\ UNCHANGED << seenDb, now, lines, ticks >>
    /\ UNCHANGED << parseVars, trackVars, seenVars, pollVars, extractVars >>

Awaiting(id, pc) == id \in InFlight /\ h[id].pc = pc

\* line 1164: parseCommand settles; the handler resumes with its result in a
\* later step of the event loop
Parsed(id) ==
    /\ Awaiting(id, "parse")
    /\ \E mimeChecks \in MimeChecks(h[id].msg) :
        Continue(id, Await(id, parseCommand(h[id].msg, mimeChecks), h[id].calls, "command", << >>))
    /\ UNCHANGED << messageHistory, lastPostUri, lastPostTimestamp, lastBskyUrl,
                    feed, posted, observed >>
    /\ HandlerFrame

\* the handler resumes with a command of the given type
Resumed(id, type) == Awaiting(id, "command") /\ h[id].cmd.type = type

\* lines 1166-1173: twit, up to the await of postToBluesky
OnTwit(id) ==
    /\ Resumed(id, "twit")
    /\ messageHistory' = MapSet(messageHistory, HistoryKey(h[id].nick), h[id].cmd.text)
    /\ Continue(id, Await(id, h[id].cmd, h[id].calls, "post",
            [text |-> h[id].cmd.text, imageUrls |-> h[id].cmd.imageUrls,
             replyTo |-> None, url |-> None]))
    /\ UNCHANGED << lastPostUri, lastPostTimestamp, lastBskyUrl, feed, posted, observed >>
    /\ HandlerFrame

\* quote that looks the nick up as it is written
OnQuoteExactNick(id) ==
    /\ Resumed(id, "quote")
    /\ LET command == h[id].cmd
           quotedMessage == MapGet(messageHistory, command.targetNick)
           postText == IF command.additionalText.some
                       THEN quotedMessage.v \o sp \o command.additionalText.v
                       ELSE quotedMessage.v
       IN  IF quotedMessage.some /\ quotedMessage.v # << >>
           THEN /\ Continue(id, Await(id, command, h[id].calls, "post",
                        [text |-> postText, imageUrls |-> command.imageUrls,
                         replyTo |-> None, url |-> None]))
                /\ UNCHANGED << messageHistory, lastBskyUrl >>
           ELSE Untracked(id, command)
    /\ UNCHANGED << lastPostUri, lastPostTimestamp, feed, posted, observed >>
    /\ HandlerFrame

\* quote that answers "no" and returns when the nick has no message
OnQuoteRefusing(id) ==
    /\ Resumed(id, "quote")
    /\ LET command == h[id].cmd
           quotedMessage == MapGet(messageHistory, toLowerCase(command.targetNick))
           postText == IF command.additionalText.some
                       THEN quotedMessage.v \o sp \o command.additionalText.v
                       ELSE quotedMessage.v
       IN  IF quotedMessage.some /\ quotedMessage.v # << >>
           THEN Continue(id, Await(id, command, h[id].calls, "post",
                        [text |-> postText, imageUrls |-> command.imageUrls,
                         replyTo |-> None, url |-> None]))
           ELSE Return(id, command, h[id].calls, None, None, << Say("no") >>)
    /\ UNCHANGED << messageHistory, lastPostUri, lastPostTimestamp, lastBskyUrl,
                    feed, posted, observed >>
    /\ HandlerFrame

\* lines 1182-1202: quote, up to the await of postToBluesky, or falling
\* through when the nick has no message
OnQuote(id) ==
    /\ Resumed(id, "quote")
    /\ LET command == h[id].cmd
           quotedMessage == MapGet(messageHistory, toLowerCase(command.targetNick))
           postText == IF command.additionalText.some
                       THEN quotedMessage.v \o sp \o command.additionalText.v
                       ELSE quotedMessage.v
       IN  IF quotedMessage.some /\ quotedMessage.v # << >>
           THEN /\ Continue(id, Await(id, command, h[id].calls, "post",
                        [text |-> postText, imageUrls |-> command.imageUrls,
                         replyTo |-> None, url |-> None]))
                /\ UNCHANGED << messageHistory, lastBskyUrl >>
           ELSE Untracked(id, command)
    /\ UNCHANGED << lastPostUri, lastPostTimestamp, feed, posted, observed >>
    /\ HandlerFrame

\* reply that publishes without a target when no url is tracked
OnReplyUntargeted(id) ==
    /\ Resumed(id, "reply")
    /\ IF lastBskyUrl.some /\ lastBskyUrl.v # << >>
       THEN Continue(id, Await(id, h[id].cmd, h[id].calls, "resolve", [url |-> lastBskyUrl]))
       ELSE Continue(id, Await(id, h[id].cmd, h[id].calls, "post",
                [text |-> h[id].cmd.text, imageUrls |-> h[id].cmd.imageUrls,
                 replyTo |-> None, url |-> None]))
    /\ UNCHANGED << messageHistory, lastPostUri, lastPostTimestamp, lastBskyUrl,
                    feed, posted, observed >>
    /\ HandlerFrame

\* lines 1204-1209 and 1221-1224: reply, up to the await of parseBlueskyUrl
OnReply(id) ==
    /\ Resumed(id, "reply")
    /\ IF lastBskyUrl.some /\ lastBskyUrl.v # << >>
       THEN Continue(id, Await(id, h[id].cmd, h[id].calls, "resolve", [url |-> lastBskyUrl]))
       ELSE Return(id, h[id].cmd, h[id].calls, lastBskyUrl, None, << Say("no") >>)
    /\ UNCHANGED << messageHistory, lastPostUri, lastPostTimestamp, lastBskyUrl,
                    feed, posted, observed >>
    /\ HandlerFrame

\* lines 1227-1233: untwit, up to the first await of deletePost
OnUntwit(id) ==
    /\ Resumed(id, "untwit")
    /\ Continue(id, Await(id, h[id].cmd, h[id].calls, "fetch",
            [uri |-> lastPostUri, timestamp |-> lastPostTimestamp,
             forceDelete |-> h[id].cmd.force]))
    /\ UNCHANGED << messageHistory, lastPostUri, lastPostTimestamp, lastBskyUrl,
                    feed, posted, observed >>
    /\ HandlerFrame

\* lines 1247-1248: sup, up to the await of getLastPost
OnSup(id) ==
    /\ Resumed(id, "sup")
    /\ Continue(id, Await(id, h[id].cmd, h[id].calls, "sup", [handle |-> h[id].cmd.handle]))
    /\ UNCHANGED << messageHistory, lastPostUri, lastPostTimestamp, lastBskyUrl,
                    feed, posted, observed >>
    /\ HandlerFrame

\* lines 1264-1274: seen
OnSeen(id) ==
    /\ Resumed(id, "seen")
    /\ Return(id, h[id].cmd, h[id].calls, None, None,
              << IF getSeen(seenDb, h[id].cmd.targetNick).some
                 THEN Say("seen") ELSE Say("not seen") >>)
    /\ UNCHANGED << messageHistory, lastPostUri, lastPostTimestamp, lastBskyUrl,
                    feed, posted, observed >>
    /\ HandlerFrame

\* lines 1276-1288: no command
OnNothing(id) ==
    /\ Resumed(id, "null")
    /\ Untracked(id, h[id].cmd)
    /\ UNCHANGED << lastPostUri, lastPostTimestamp, feed, posted, observed >>
    /\ HandlerFrame

\* postToBluesky has image urls and has not fetched and uploaded them yet
Embedding(id) ==
    /\ Awaiting(id, "post")
    /\ h[id].args.imageUrls.some /\ h[id].args.imageUrls.v # << >>
    /\ "blobs" \notin DOMAIN h[id].args

\* postToBluesky once the images are uploaded
WithBlobs(a) ==
    [text |-> a.text, imageUrls |-> a.imageUrls, replyTo |-> a.replyTo, url |-> a.url,
     blobs |-> urlsToEmbed(a.imageUrls)]

\* an image that cannot be embedded is left out of the post
EmbeddedOrLeftOut(id, failing) ==
    Continue(id, Await(id, h[id].cmd, Calls(id, failing = 0), "post",
        IF failing = 0 THEN WithBlobs(h[id].args)
        ELSE [text |-> h[id].args.text, imageUrls |-> None,
              replyTo |-> h[id].args.replyTo, url |-> h[id].args.url]))

\* the images are fetched, converted and uploaded one after the other; when
\* that throws for one of them postToBluesky returns { success: false }
EmbeddedOrFailed(id, failing) ==
    IF failing = 0
    THEN Continue(id, Await(id, h[id].cmd, Calls(id, TRUE), "post", WithBlobs(h[id].args)))
    ELSE Return(id, h[id].cmd, Calls(id, FALSE), h[id].args.url, None, << Say("no") >>)

\* postToBluesky is through with its images: failing is the place of the
\* first image whose fetch, conversion or upload throws, 0 when none does
Embedded(id) ==
    /\ Embedding(id)
    /\ \E failing \in 0..Len(urlsToEmbed(h[id].args.imageUrls)) :
        EmbeddedOrFailed(id, failing)
    /\ UNCHANGED << messageHistory, lastPostUri, lastPostTimestamp, lastBskyUrl,
                    feed, posted, observed >>
    /\ HandlerFrame

\* every command that published records its post as the last one
PostedAlwaysRecorded(id) ==
    /\ Awaiting(id, "post") /\ ~Embedding(id)
    /\ \E reachable \in BOOLEAN :
        LET a == h[id].args
            uri == posted + 1
            result == IF reachable THEN [success |-> TRUE, uri |-> Some(uri)]
                      ELSE [success |-> FALSE, uri |-> None]
        IN  /\ IF reachable
               THEN /\ feed' = Append(feed, NewPost(uri, a.text, a.imageUrls, a.replyTo, now))
                    /\ posted' = uri
               ELSE UNCHANGED << feed, posted >>
            /\ IF result.success /\ result.uri.some
               THEN /\ lastPostUri' = result.uri
                    /\ lastPostTimestamp' = Some(now)
               ELSE UNCHANGED << lastPostUri, lastPostTimestamp >>
            /\ Return(id, h[id].cmd, Calls(id, reachable), a.url, result.uri,
                      << IF result.success THEN Say("ok") ELSE Say("no") >>)
    /\ UNCHANGED << messageHistory, lastBskyUrl, observed >>
    /\ HandlerFrame

\* postToBluesky returns; lines 1174-1179 (twit), 1198-1199 (quote) and 1217
\* (reply)
Posted(id) ==
    /\ Awaiting(id, "post") /\ ~Embedding(id)
    /\ \E reachable \in BOOLEAN :
        LET a == h[id].args
            uri == posted + 1
            result == IF reachable THEN [success |-> TRUE, uri |-> Some(uri)]
                      ELSE [success |-> FALSE, uri |-> None]
        IN  /\ IF reachable
               THEN /\ feed' = Append(feed, NewPost(uri, a.text, a.imageUrls, a.replyTo, now))
                    /\ posted' = uri
               ELSE UNCHANGED << feed, posted >>
            /\ IF h[id].cmd.type = "twit" /\ result.success /\ result.uri.some
               THEN /\ lastPostUri' = result.uri
                    /\ lastPostTimestamp' = Some(now)
               ELSE UNCHANGED << lastPostUri, lastPostTimestamp >>
            /\ Return(id, h[id].cmd, Calls(id, reachable), a.url, result.uri,
                      << IF result.success THEN Say("ok") ELSE Say("no") >>)
    /\ UNCHANGED << messageHistory, lastBskyUrl, observed >>
    /\ HandlerFrame

\* parseBlueskyUrl returns; lines 1210-1220
Resolved(id) ==
    /\ Awaiting(id, "resolve")
    /\ \E reachable \in BOOLEAN :
        LET replyData == parseBlueskyUrl(reachable, h[id].args.url.v)
        IN  IF replyData.some
            THEN Continue(id, Await(id, h[id].cmd, Calls(id, reachable), "post",
                     [text |-> h[id].cmd.text, imageUrls |-> h[id].cmd.imageUrls,
                      replyTo |-> replyData, url |-> h[id].args.url]))
            ELSE Return(id, h[id].cmd, Calls(id, reachable), h[id].args.url, None, << Say("no") >>)
    /\ UNCHANGED << messageHistory, lastPostUri, lastPostTimestamp, lastBskyUrl,
                    feed, posted, observed >>
    /\ HandlerFrame

\* deletePost reaches agent.deletePost or returns failure
Fetched(id) ==
    /\ Awaiting(id, "fetch")
    /\ \E reachable \in BOOLEAN :
        LET a == h[id].args
            target == DeleteTarget(reachable, feed, a.uri, a.timestamp, a.forceDelete, now)
        IN  IF target.some
            THEN Continue(id, Await(id, h[id].cmd, Calls(id, reachable), "delete", target.v))
            ELSE Return(id, h[id].cmd, Calls(id, reachable), None, None, << Say("no") >>)
    /\ UNCHANGED << messageHistory, lastPostUri, lastPostTimestamp, lastBskyUrl,
                    feed, posted, observed >>
    /\ HandlerFrame

\* an untwit that forgets the post but not its time
DeletedKeepingTime(id) ==
    /\ Awaiting(id, "delete")
    /\ \E reachable \in BOOLEAN :
        LET a == h[id].args
            preview == IF a.text.some /\ a.text.v # << >>
                       THEN Some(SubSeq(a.text.v, 1,
                                IF Len(a.text.v) < 20 THEN Len(a.text.v) ELSE 20))
                       ELSE None
        IN  IF reachable
            THEN /\ feed' = RemovePost(feed, a.uri)
                 /\ lastPostUri' = None
                 /\ UNCHANGED lastPostTimestamp
                 /\ Return(id, h[id].cmd, Calls(id, reachable), None, Some(a.uri),
                           << [say |-> "deleted", text |-> preview] >>)
            ELSE /\ UNCHANGED << feed, lastPostUri, lastPostTimestamp >>
                 /\ Return(id, h[id].cmd, Calls(id, reachable), None, None, << Say("no") >>)
    /\ UNCHANGED << messageHistory, lastBskyUrl, posted, observed >>
    /\ HandlerFrame

\* agent.deletePost returns; lines 1234-1245
Deleted(id) ==
    /\ Awaiting(id, "delete")
    /\ \E reachable \in BOOLEAN :
        LET a == h[id].args
            preview == IF a.text.some /\ a.text.v # << >>
                       THEN Some(SubSeq(a.text.v, 1,
                                IF Len(a.text.v) < 20 THEN Len(a.text.v) ELSE 20))
                       ELSE None
        IN  IF reachable
            THEN /\ feed' = RemovePost(feed, a.uri)
                 /\ lastPostUri' = None
                 /\ lastPostTimestamp' = None
                 /\ Return(id, h[id].cmd, Calls(id, reachable), None, Some(a.uri),
                           << [say |-> "deleted", text |-> preview] >>)
            ELSE /\ UNCHANGED << feed, lastPostUri, lastPostTimestamp >>
                 /\ Return(id, h[id].cmd, Calls(id, reachable), None, None, << Say("no") >>)
    /\ UNCHANGED << messageHistory, lastBskyUrl, posted, observed >>
    /\ HandlerFrame

\* getLastPost returns; lines 1249-1262
SupDone(id) ==
    /\ Awaiting(id, "sup")
    /\ \E answer \in { "post", "crickets", "who?", "no" } :
        LET url == LastPostUrl(h[id].args.handle, << "9" >>)
        IN  IF answer = "post"
            THEN /\ Return(id, h[id].cmd, Calls(id, answer # "no"), Some(url), None, << [say |-> "post", url |-> url] >>)
                 /\ lastBskyUrl' = Some(url)
                 /\ observed' = Some(url)
            ELSE /\ Return(id, h[id].cmd, Calls(id, answer # "no"), None, None, << Say(answer) >>)
                 /\ UNCHANGED << lastBskyUrl, observed >>
    /\ UNCHANGED << messageHistory, lastPostUri, lastPostTimestamp, feed, posted >>
    /\ HandlerFrame

\* getPostFromUrl returns; lines 1282-1288
Shown(id) ==
    /\ Awaiting(id, "show")
    /\ \E reachable \in BOOLEAN :
        /\ messageHistory' = MapSet(messageHistory, HistoryKey(h[id].nick), h[id].msg)
        /\ Return(id, h[id].cmd, Calls(id, reachable), h[id].args.url, None,
                  IF parseBlueskyUrl(reachable, h[id].args.url.v).some
                  THEN << [say |-> "post", url |-> h[id].args.url.v] >> ELSE << >>)
    /\ UNCHANGED << lastPostUri, lastPostTimestamp, lastBskyUrl, feed, posted, observed >>
    /\ HandlerFrame

\* time passes
Tick(d) ==
    /\ ticks < MaxTicks
    /\ now' = now + d
    /\ ticks' = ticks + 1
    /\ last' = NoLast
    /\ UNCHANGED << messageHistory, lastPostUri, lastPostTimestamp, lastBskyUrl, seenDb,
                    h, feed, posted, lines, wantHistory, observed >>
    /\ UNCHANGED << parseVars, trackVars, seenVars, pollVars, extractVars >>

Step(id) ==
    \/ Parsed(id)
    \/ OnTwit(id) \/ OnQuote(id) \/ OnReply(id) \/ OnUntwit(id)
    \/ OnSup(id) \/ OnSeen(id) \/ OnNothing(id)
    \/ Embedded(id) \/ Posted(id) \/ Resolved(id) \/ Fetched(id) \/ Deleted(id)
    \/ SupDone(id) \/ Shown(id)

Arrive(nick, target) ==
    \/ Ignored(nick, target)
    \/ \E message \in ChatLines : lines < MaxOverlapped /\ Message(nick, target, message)

Next ==
    \/ \E nick \in Nicks \cup {BotNick}, target \in {Channel, BotNick} : Arrive(nick, target)
    \/ \E id \in 1..MaxInFlight : Step(id)
    \/ \E d \in {ONE_HOUR_MS, ONE_HOUR_MS + 1} : Tick(d)

\* the program: message events are handled as they arrive
Spec == Init /\ [][Next]_vars

\* one line at a time: a line arrives when the handler of the line before
\* it has returned
One(nick, target) ==
    \/ Ignored(nick, target)
    \/ \E message \in ChatLines : InFlight = {} /\ Message(nick, target, message)

NextSeq ==
    \/ \E nick \in Nicks \cup {BotNick}, target \in {Channel, BotNick} : One(nick, target)
    \/ \E id \in 1..MaxInFlight : Step(id)
    \/ \E d \in {ONE_HOUR_MS, ONE_HOUR_MS + 1} : Tick(d)

SpecSeq == Init /\ [][NextSeq]_vars

(***************************************************************************)
(* parseCommand on its own                                                 *)
(***************************************************************************)

\* pieces per line
MaxPieces == 4

ParsePieces ==
    { kTwit, << "Q", "u", "o", "t", "e" >>, kReply, kUntwit, kSup, kSeen,
      sp, << "!" >>, << "a" >>, kUrl, kPng }

RECURSIVE Made(_)
\* the lines made of n pieces
Made(n) ==
    IF n = 0 THEN { << >> }
    ELSE { line \o piece : line \in Made(n - 1), piece \in ParsePieces }

\* a line of at most MaxPieces pieces and the outcomes of its probes
StartParse ==
    /\ input \in UNION { Made(n) : n \in 0..MaxPieces }
    /\ checks \in MimeChecks(input)
    /\ output = Pending
    /\ InitBot /\ InitTrack /\ InitSeen /\ InitPoll /\ InitExtract

Parse ==
    /\ output = Pending
    /\ output' = parseCommand(input, checks)
    /\ UNCHANGED << input, checks >>
    /\ UNCHANGED << botVars, trackVars, seenVars, pollVars, extractVars >>

SpecParse == StartParse /\ [][Parse]_vars

(***************************************************************************)
(* parseTwitCommand, parseQuoteCommand and parseReplyCommand on their own  *)
(***************************************************************************)

\* pieces after the head of a line
MaxBody == 4

\* how a line begins, and the pieces that follow
TextHeads ==
    { kTwit, << "T", "w", "I", "t", " " >>,
      kReply, << "R", "E", "P", "L", "Y", "\t" >>,
      kQuote, << "Q", "u", "o", "t", "e", " ", "B", "o" >> }

BodyPieces == { sp, << "y" >>, kUrl, kPng }

RECURSIVE Bodies(_)
\* the line ends made of n pieces
Bodies(n) ==
    IF n = 0 THEN { << >> }
    ELSE { body \o piece : body \in Bodies(n - 1), piece \in BodyPieces }

StartText ==
    /\ input \in { head \o body : head \in TextHeads,
                                    body \in UNION { Bodies(n) : n \in 0..MaxBody } }
    /\ checks \in MimeChecks(input)
    /\ output = Pending
    /\ InitBot /\ InitTrack /\ InitSeen /\ InitPoll /\ InitExtract

ParseTwit ==
    /\ output = Pending
    /\ output' = parseTwitCommand(input, checks)
    /\ UNCHANGED << input, checks >>
    /\ UNCHANGED << botVars, trackVars, seenVars, pollVars, extractVars >>

ParseQuote ==
    /\ output = Pending
    /\ output' = parseQuoteCommand(input, checks)
    /\ UNCHANGED << input, checks >>
    /\ UNCHANGED << botVars, trackVars, seenVars, pollVars, extractVars >>

ParseReply ==
    /\ output = Pending
    /\ output' = parseReplyCommand(input, checks)
    /\ UNCHANGED << input, checks >>
    /\ UNCHANGED << botVars, trackVars, seenVars, pollVars, extractVars >>

NextText == ParseTwit \/ ParseQuote \/ ParseReply

SpecText == StartText /\ [][NextText]_vars

(***************************************************************************)
(* parseUntwitCommand on its own                                           *)
(***************************************************************************)

\* pieces per line
MaxUntwitPieces == 3

UntwitPieces ==
    { kUntwit, << "U", "N", "T", "W", "I", "T" >>, << "u", "n", "T", "w", "i", "t" >>,
      << "!" >>, sp, << "a" >> }

RECURSIVE UntwitLines(_)
\* the lines made of n pieces
UntwitLines(n) ==
    IF n = 0 THEN { << >> }
    ELSE { line \o piece : line \in UntwitLines(n - 1), piece \in UntwitPieces }

StartUntwit ==
    /\ input \in UNION { UntwitLines(n) : n \in 0..MaxUntwitPieces }
    /\ checks = << >>
    /\ output = Pending
    /\ InitBot /\ InitTrack /\ InitSeen /\ InitPoll /\ InitExtract

ParseUntwit ==
    /\ output = Pending
    /\ output' = parseUntwitCommand(input)
    /\ UNCHANGED << input, checks >>
    /\ UNCHANGED << botVars, trackVars, seenVars, pollVars, extractVars >>

SpecUntwit == StartUntwit /\ [][ParseUntwit]_vars

(***************************************************************************)
(* parseSeenCommand on its own                                             *)
(***************************************************************************)

\* pieces per line
MaxSeenPieces == 5

SeenPieces ==
    { kSeen, << "S", "e", "E", "n" >>, sp, << "\t" >>, << "A", "l" >>, << "b" >> }

RECURSIVE SeenLines(_)
\* the lines made of n pieces
SeenLines(n) ==
    IF n = 0 THEN { << >> }
    ELSE { line \o piece : line \in SeenLines(n - 1), piece \in SeenPieces }

StartSeenCommand ==
    /\ input \in UNION { SeenLines(n) : n \in 0..MaxSeenPieces }
    /\ checks = << >>
    /\ output = Pending
    /\ InitBot /\ InitTrack /\ InitSeen /\ InitPoll /\ InitExtract

ParseSeen ==
    /\ output = Pending
    /\ output' = parseSeenCommand(input)
    /\ UNCHANGED << input, checks >>
    /\ UNCHANGED << botVars, trackVars, seenVars, pollVars, extractVars >>

SpecSeenCommand == StartSeenCommand /\ [][ParseSeen]_vars

(***************************************************************************)
(* The url tracking of a caller of extractBlueskyUrl                       *)
(***************************************************************************)

\* lines fed
MaxFed == 3

\* the caller sees a line and keeps the latest url extractBlueskyUrl finds
Feed(line) ==
    /\ Len(fed) < MaxFed
    /\ fed' = Append(fed, line)
    /\ tracked' = IF extractBlueskyUrl(line).some THEN extractBlueskyUrl(line) ELSE tracked
    /\ UNCHANGED << botVars, parseVars, seenVars, pollVars, extractVars >>

NextTrack == \E line \in TrackLines : Feed(line)

SpecTrack == Init /\ [][NextTrack]_vars

(***************************************************************************)
(* commands.ts: extractImageUrls on its own                                *)
(***************************************************************************)

\* pieces per text
MaxWords == 5

ExtractPieces == { sp, << "y" >>, << "?" >>, kUrl, kPng }

RECURSIVE Texts(_)
\* the texts made of n pieces
Texts(n) ==
    IF n = 0 THEN { << >> }
    ELSE { t \o piece : t \in Texts(n - 1), piece \in ExtractPieces }

\* every answer of isImageUrl to the probes extractImageUrls issues for t;
\* a probe that fails answers false
Probes(t) == [1..Len(urlsToCheck(t)) -> BOOLEAN]

\* a text of at most MaxWords pieces and the answers to its probes
StartExtract ==
    /\ text \in UNION { Texts(n) : n \in 0..MaxWords }
    /\ probes \in Probes(text)
    /\ extracted = Pending /\ again = Pending
    /\ probing = << >> /\ settled = << >>
    /\ InitBot /\ InitParse /\ InitTrack /\ InitSeen /\ InitPoll

Extract ==
    /\ extracted = Pending
    /\ extracted' = extractImageUrls(text, probes)
    /\ UNCHANGED << text, probes, again, probing, settled >>
    /\ UNCHANGED << botVars, parseVars, trackVars, seenVars, pollVars >>

\* the answers to the probes of the residual text that give a url probed
\* for the text the answer it got then
SameAnswers(toCheck, toCheckAgain) ==
    { a \in [1..Len(toCheckAgain) -> BOOLEAN] :
        \A j \in 1..Len(toCheckAgain), k \in 1..Len(toCheck) :
            toCheckAgain[j] = toCheck[k] => a[j] = probes[k] }

\* the residual text is fed back to extractImageUrls
ExtractAgain ==
    /\ extracted # Pending /\ again = Pending
    /\ \E answers \in SameAnswers(urlsToCheck(text), urlsToCheck(extracted.cleanText)) :
        again' = extractImageUrls(extracted.cleanText, answers)
    /\ UNCHANGED << text, probes, extracted, probing, settled >>
    /\ UNCHANGED << botVars, parseVars, trackVars, seenVars, pollVars >>

NextExtract == Extract \/ ExtractAgain

SpecExtract == StartExtract /\ [][NextExtract]_vars

(***************************************************************************)
(* commands.ts: the probes of extractImageUrls, one step per await         *)
(***************************************************************************)

\* pieces per probed text
MaxProbed == 5

ProbePieces == { sp, << "y" >>, kUrl, kPng }

RECURSIVE ProbedTexts(_)
\* the texts made of n pieces
ProbedTexts(n) ==
    IF n = 0 THEN { << >> }
    ELSE { t \o piece : t \in ProbedTexts(n - 1), piece \in ProbePieces }

\* extractImageUrls is called with a text of at most MaxProbed pieces
StartProbes ==
    /\ text \in UNION { ProbedTexts(n) : n \in 0..MaxProbed }
    /\ probes = << >> /\ extracted = Pending /\ again = Pending
    /\ probing = << >> /\ settled = << >>
    /\ InitBot /\ InitParse /\ InitTrack /\ InitSeen /\ InitPoll

\* a probe per url, issued one after the other's answer
IssueOneByOne(toCheck) ==
    /\ DOMAIN settled = DOMAIN probing
    /\ probing' = SubSeq(toCheck, 1, Len(probing) + 1)

\* urlsToCheck.map(...): the callback runs for every url up to its await of
\* fetch, so every HEAD request is out when map returns
IssueAll(toCheck) == probing' = toCheck

Issue ==
    /\ extracted = Pending
    /\ probing # urlsToCheck(text)
    /\ IssueAll(urlsToCheck(text))
    /\ UNCHANGED << text, probes, extracted, again, settled >>
    /\ UNCHANGED << botVars, parseVars, trackVars, seenVars, pollVars >>

\* isImageUrl's fetch of the k-th url ends: the content type is an image's or
\* not, or the fetch throws and the answer is false
Settle(k, isImage) ==
    /\ k \in DOMAIN probing \ DOMAIN settled
    /\ settled' = MapSet(settled, k, isImage)
    /\ UNCHANGED << text, probes, extracted, again, probing >>
    /\ UNCHANGED << botVars, parseVars, trackVars, seenVars, pollVars >>

\* Promise.all resolves once every promise of the array has, and the rest of
\* extractImageUrls runs
Gather ==
    /\ extracted = Pending
    /\ probing = urlsToCheck(text)
    /\ DOMAIN settled = DOMAIN probing
    /\ extracted' = extractImageUrls(text, settled)
    /\ UNCHANGED << text, probes, again, probing, settled >>
    /\ UNCHANGED << botVars, parseVars, trackVars, seenVars, pollVars >>

NextProbes ==
    \/ Issue
    \/ \E k \in 1..MaxProbed, isImage \in BOOLEAN : Settle(k, isImage)
    \/ Gather

SpecProbes == StartProbes /\ [][NextProbes]_vars

(***************************************************************************)
(* seen.ts on its own                                                      *)
(***************************************************************************)

\* updateSeen calls
MaxUpdates == 3

\* the nicks, in several letter cases, the messages and the channels of the
\* calls
SeenNicks == { << "A", "l" >>, << "a", "l" >>, << "A", "L" >>, << "b", "o" >> }
SeenMessages == { << "h", "i" >>, << "y", "o" >> }
SeenChannels == { Channel, << "#", "d" >> }

Update(nick, message, channel) ==
    /\ Len(updates) < MaxUpdates
    /\ seenDb' = updateSeen(seenDb, nick, message, channel, now)
    /\ updates' = Append(updates, [nick |-> nick, what |-> message, where |-> channel])
    /\ UNCHANGED << messageHistory, lastPostUri, lastPostTimestamp, lastBskyUrl,
                    h, last, feed, posted, now, lines, ticks, wantHistory, observed >>
    /\ UNCHANGED << parseVars, trackVars, extractVars, pollVars >>

NextSeen ==
    \E nick \in SeenNicks, message \in SeenMessages, channel \in SeenChannels :
        Update(nick, message, channel)

SpecSeen == Init /\ [][NextSeen]_vars

(***************************************************************************)
(* pollNotifications and the join handler                                  *)
(***************************************************************************)

\* join events of the bot's own nick in one behaviour
MaxJoins == 2
\* notifications the account receives in one behaviour
MaxNotifications == 2
\* polls that fail in one behaviour
MaxFailures == 6

NotificationReasons == { "mention", "reply", "like" }
NotificationAuthor == << "a", ".", "b" >>

\* the t-th notification of the account: indexedAt grows with t, the post
\* it is about has its own rkey
Notification(reason, t) ==
    [reason |-> reason, indexedAt |-> t, handle |-> NotificationAuthor,
     rkey |-> << "k", IF t = 1 THEN "1" ELSE "2" >>]

isMentionOrReply(n) == n.reason = "mention" \/ n.reason = "reply"

\* the test of the loop that skips a notification
AlreadySeenStrictly(notif, seen) == notif.indexedAt < seen
AlreadySeen(notif, seen) == notif.indexedAt <= seen

\* the url the loop builds for the post of a notification
NotificationUrl(notif) ==
    BLUESKY_APP_URL \o << "/", "p", "r", "o", "f", "i", "l", "e", "/" >>
        \o notif.handle \o kPost \o notif.rkey

RECURSIVE Pow2(_)
Pow2(k) == IF k = 0 THEN 1 ELSE 2 * Pow2(k - 1)

\* the interval the catch block computes from consecutiveErrors
BackedOff(errors) ==
    LET doubled == POLL_INTERVAL_BASE * Pow2(errors - 1)
    IN  IF doubled < POLL_INTERVAL_MAX THEN doubled ELSE POLL_INTERVAL_MAX

\* the loop over the notifications, oldest first; st is what it has done so
\* far: lastSeenNotificationTime, the notifications said, lastBskyUrl
RECURSIVE Echo(_, _)
Echo(notifications, st) ==
    IF notifications = << >> THEN st
    ELSE LET notif == Head(notifications)
         IN  IF ~isMentionOrReply(notif) \/ AlreadySeen(notif, st.seen)
             THEN Echo(Tail(notifications), st)
             ELSE Echo(Tail(notifications),
                       [seen |-> notif.indexedAt,
                        said |-> Append(st.said, notif.indexedAt),
                        url |-> Some(NotificationUrl(notif))])

\* what listNotifications may answer to the request of poll c: the inbox
\* as it was at some moment since the request was made (newest first)
Answers(c) ==
    { SubSeq(inbox, Len(inbox) - m + 1, Len(inbox)) : m \in poll[c].asked..Len(inbox) }

pollFrame == << messageHistory, lastPostUri, lastPostTimestamp, seenDb,
                h, last, feed, posted, now, lines, ticks, wantHistory, observed,
                parseVars, trackVars, seenVars, extractVars >>

\* a call of pollNotifications, up to its await of listNotifications
Polling(waited) == [pc |-> "list", asked |-> Len(inbox), waited |-> waited]

\* the finally block: the next poll is scheduled with currentPollInterval
Scheduled(interval) == [pc |-> "timer", delay |-> interval]

Finished(c, ok, first, said, next) ==
    [done |-> TRUE, chain |-> c, ok |-> ok, first |-> first, said |-> said,
     waited |-> poll[c].waited, next |-> next]

\* the join handler, for the bot's own nick
Join ==
    /\ joins < MaxJoins
    /\ joins' = joins + 1
    /\ poll' = Append(poll, Polling(None))
    /\ polled' = NoPoll
    /\ UNCHANGED << lastSeenNotificationTime, currentPollInterval, consecutiveErrors,
                    inbox, echoed, failures, succeeded, late, lastBskyUrl, pollFrame >>

\* the timer of the finally block fires
Fired(c) ==
    /\ c \in DOMAIN poll /\ poll[c].pc = "timer"
    /\ poll' = [poll EXCEPT ![c] = Polling(Some(poll[c].delay))]
    /\ polled' = NoPoll
    /\ UNCHANGED << lastSeenNotificationTime, currentPollInterval, consecutiveErrors,
                    inbox, echoed, joins, failures, succeeded, late, lastBskyUrl,
                    pollFrame >>

\* the account receives a notification
Notify(reason) ==
    /\ Len(inbox) < MaxNotifications
    /\ inbox' = << Notification(reason, Len(inbox) + 1) >> \o inbox
    /\ late' = IF succeeded THEN late \cup { Len(inbox) + 1 } ELSE late
    /\ polled' = NoPoll
    /\ UNCHANGED << lastSeenNotificationTime, currentPollInterval, consecutiveErrors,
                    poll, echoed, joins, failures, succeeded, lastBskyUrl, pollFrame >>

\* the success block and the finally block
Succeeded(c, first, said) ==
    LET interval == IF ~first /\ consecutiveErrors > 0
                    THEN POLL_INTERVAL_BASE ELSE currentPollInterval
    IN  /\ consecutiveErrors' = IF first THEN consecutiveErrors ELSE 0
        /\ currentPollInterval' = interval
        /\ poll' = [poll EXCEPT ![c] = Scheduled(interval)]
        /\ polled' = Finished(c, TRUE, first, said, interval)
        /\ succeeded' = TRUE
        /\ UNCHANGED failures

\* listNotifications answers
Listed(c) ==
    /\ c \in DOMAIN poll /\ poll[c].pc = "list"
    /\ \E result \in Answers(c) :
        IF ~lastSeenNotificationTime.some
        THEN LET mentionsAndReplies == SelectSeq(result, isMentionOrReply)
             IN  /\ lastSeenNotificationTime' =
                        IF Len(mentionsAndReplies) > 0
                        THEN Some(mentionsAndReplies[1].indexedAt)
                        ELSE lastSeenNotificationTime
                 /\ Succeeded(c, TRUE, << >>)
                 /\ UNCHANGED << echoed, lastBskyUrl >>
        ELSE LET notifications == [i \in 1..Len(result) |-> result[Len(result) + 1 - i]]
                 st == Echo(notifications,
                            [seen |-> lastSeenNotificationTime.v, said |-> << >>,
                             url |-> lastBskyUrl])
             IN  /\ lastSeenNotificationTime' = Some(st.seen)
                 /\ echoed' = echoed \o st.said
                 /\ lastBskyUrl' = st.url
                 /\ IF Len(notifications) > 0
                    THEN /\ poll' = [poll EXCEPT ![c] =
                                        [pc |-> "mark", said |-> st.said,
                                         waited |-> poll[c].waited]]
                         /\ polled' = NoPoll
                         /\ UNCHANGED << currentPollInterval, consecutiveErrors,
                                         failures, succeeded >>
                    ELSE Succeeded(c, FALSE, st.said)
    /\ UNCHANGED << inbox, joins, late, pollFrame >>

\* updateSeenNotifications answers
Marked(c) ==
    /\ c \in DOMAIN poll /\ poll[c].pc = "mark"
    /\ Succeeded(c, FALSE, poll[c].said)
    /\ UNCHANGED << lastSeenNotificationTime, inbox, echoed, joins, late, lastBskyUrl,
                    pollFrame >>

\* listNotifications or updateSeenNotifications throws: the catch block and
\* the finally block
Failed(c) ==
    /\ c \in DOMAIN poll /\ poll[c].pc \in { "list", "mark" }
    /\ failures < MaxFailures
    /\ failures' = failures + 1
    /\ consecutiveErrors' = consecutiveErrors + 1
    /\ currentPollInterval' = BackedOff(consecutiveErrors + 1)
    /\ poll' = [poll EXCEPT ![c] = Scheduled(BackedOff(consecutiveErrors + 1))]
    /\ polled' = Finished(c, FALSE, FALSE,
                          IF poll[c].pc = "mark" THEN poll[c].said ELSE << >>,
                          BackedOff(consecutiveErrors + 1))
    /\ UNCHANGED << lastSeenNotificationTime, inbox, echoed, joins, succeeded, late,
                    lastBskyUrl, pollFrame >>

PollStep(c) == Fired(c) \/ Listed(c) \/ Marked(c)

NextPoll ==
    \/ Join
    \/ \E reason \in NotificationReasons : Notify(reason)
    \/ \E c \in 1..MaxJoins : PollStep(c) \/ Failed(c)

SpecPoll == Init /\ [][NextPoll]_vars

\* the timers fire and the service answers; from some point on no poll fails
FairPoll == SpecPoll /\ \A c \in 1..MaxJoins : WF_vars(PollStep(c))

(***************************************************************************)
(* The claims                                                              *)
(***************************************************************************)

\* C1: the processing of one in-channel line is complete before the
\* processing of the next begins: no two executions of the message handler
\* are in progress at the same time
OneHandlerAtATime == Cardinality(InFlight) <= 1

\* C2: once the handler has processed a line that contains a post link,
\* lastBskyUrl is the first post link of that line, whether or not the line
\* was a command
TrackedAfterEveryLine ==
    last.done /\ PostUrl(last.msg).some => lastBskyUrl = PostUrl(last.msg)

\* C3: with the lines processed one at a time, the post a successful untwit
\* removes is the post the bot published most recently: once it has removed
\* a post, the newest post the bot published is no longer in the feed
UntwitRemovesNewest ==
    last.done /\ last.cmd.type = "untwit" /\ last.uri.some /\ posted > 0
        => posted \notin FeedUris(feed)

\* the timestamp deletePost holds for the post that the untwit of handler id
\* is about to examine: the recorded one, or that of the account's latest post
Recorded(id) ==
    IF h[id].args.uri.some THEN h[id].args.timestamp
    ELSE IF feed # << >> THEN Some(feed[Len(feed)].indexedAt)
    ELSE None

\* handler id has a non-force untwit at deletePost's guard, more than one
\* hour after the recorded timestamp
TooOld(id) ==
    /\ Awaiting(id, "fetch")
    /\ ~h[id].args.forceDelete
    /\ Recorded(id).some
    /\ now - Recorded(id).v > ONE_HOUR_MS

\* handler id takes the step
Moved(id) == id \notin InFlight' \/ h'[id] # h[id]

AllAnswered(calls) == \A k \in 1..Len(calls) : calls[k]

UntwitKeepsOldPosts ==
    \A id \in InFlight :
        TooOld(id) /\ Moved(id)
            => /\ id \notin InFlight'
               /\ last'.done /\ last'.out = << Say("no") >>
               /\ UNCHANGED << feed, lastPostUri, lastPostTimestamp >>

ForceDeletesAnyAge ==
    last.done /\ last.cmd.type = "untwit" /\ last.cmd.force /\ AllAnswered(last.calls)
        => \/ last.uri.some /\ last.uri.v \notin FeedUris(feed)
           \/ feed = << >>

\* C4: a non-force untwit that reaches the guard more than one hour after
\* the recorded timestamp answers "no" and leaves the feed, lastPostUri and
\* lastPostTimestamp as they are; an untwit! whose remote calls are answered
\* deletes the post it finds, whatever its age
UntwitHonoursAge == [][UntwitKeepsOldPosts]_vars /\ []ForceDeletesAnyAge

\* C4: a non-force untwit has just answered "no" to a post it recorded more
\* than an hour ago, with every remote call answered
OldPostKept ==
    /\ last.done /\ last.cmd.type = "untwit" /\ ~last.cmd.force
    /\ last.out = << Say("no") >> /\ AllAnswered(last.calls)
    /\ lastPostUri.some /\ lastPostUri.v \in FeedUris(feed)
    /\ now - lastPostTimestamp.v > ONE_HOUR_MS

\* the first post link of the last line of lines that has one
RECURSIVE LastUrl(_)
LastUrl(seq) ==
    IF seq = << >> THEN None
    ELSE IF PostUrl(seq[Len(seq)]).some THEN PostUrl(seq[Len(seq)])
    ELSE LastUrl(SubSeq(seq, 1, Len(seq) - 1))

\* C5: for lines fed one by one through extractBlueskyUrl, the caller keeping
\* the latest non-null result, the tracked value is the post link of the
\* last line that contains one, and null if no line contains one
TrackedIsLastUrl == tracked = LastUrl(fed)

\* C5: two lines with different post links were fed, then a line without
\* one, and the second link is the one tracked
SecondLinkTracked ==
    /\ Len(fed) = 3
    /\ PostUrl(fed[1]).some /\ PostUrl(fed[2]).some /\ ~PostUrl(fed[3]).some
    /\ PostUrl(fed[1]) # PostUrl(fed[2])
    /\ tracked = PostUrl(fed[2])

\* C6: the post a reply answers is the one named by the post link observed
\* most recently (in a chat line, or reported by sup)
ReplyTargetsObserved ==
    last.done /\ last.cmd.type = "reply" /\ observed.some => last.url = observed

\* handler id has a reply that found no tracked url, or awaits the
\* resolution of the tracked url
ReplyUndecided(id) ==
    \/ Resumed(id, "reply") /\ ~(lastBskyUrl.some /\ lastBskyUrl.v # << >>)
    \/ Awaiting(id, "resolve")

ReplyFailsClean ==
    \A id \in InFlight :
        ReplyUndecided(id) /\ Moved(id)
            => /\ UNCHANGED << messageHistory, lastPostUri, lastPostTimestamp,
                               lastBskyUrl, feed, posted >>
               /\ \/ /\ id \notin InFlight'
                     /\ last'.done /\ last'.out = << Say("no") >>
                     /\ ~AllAnswered(last'.calls) \/ ~last'.url.some
                  \/ /\ id \in InFlight'
                     /\ h'[id].pc = "post" /\ h'[id].args.replyTo.some
                     /\ AllAnswered(h'[id].calls)

\* C7: a reply dispatched while no post url is tracked, or whose tracked url
\* cannot be resolved, publishes nothing, answers "no", and leaves
\* messageHistory, lastPostUri, lastPostTimestamp and lastBskyUrl unchanged;
\* it goes on to publish only with a resolved target
ReplyWithoutTarget == [][ReplyFailsClean]_vars

\* C7: a reply has just answered "no" because its tracked url could not be
\* resolved
ReplyUnresolved ==
    /\ last.done /\ last.cmd.type = "reply" /\ last.out = << Say("no") >>
    /\ last.url.some /\ last.calls = << FALSE >>

\* C8: to every in-channel line recognized as twit, quote, reply or untwit
\* the bot sends exactly one message, the literal "ok" or the literal "no"
OneOkOrNo ==
    last.done /\ last.cmd.type \in { "twit", "quote", "reply", "untwit" }
        => Len(last.out) = 1 /\ last.out[1] \in { Say("ok"), Say("no") }

\* line begins with keyword, in any case, followed by a whitespace character
Begins(line, keyword) ==
    /\ Len(line) > Len(keyword)
    /\ toLowerCase(SubSeq(line, 1, Len(keyword))) = keyword
    /\ line[Len(keyword) + 1] \in WhiteSpace

\* what follows the keyword and its whitespace
Rest(line, keyword) == TrimStart(SubSeq(line, Len(keyword) + 1, Len(line)))

IsToken(word) == word # << >> /\ \A k \in 1..Len(word) : word[k] \notin WhiteSpace

\* the six grammars: twit <text>, quote <nick> [text], reply <text>,
\* untwit or untwit!, sup <handle>, seen <nick>
GrammarTwit(line) == Begins(line, kTwit) /\ Len(line) >= Len(kTwit) + 2
GrammarQuote(line) ==
    /\ Begins(line, kQuote)
    /\ \E k \in 1..Len(Rest(line, kQuote)) :
        /\ IsToken(SubSeq(Rest(line, kQuote), 1, k))
        /\ \/ k = Len(Rest(line, kQuote))
           \/ /\ Rest(line, kQuote)[k + 1] \in WhiteSpace
              /\ Len(Rest(line, kQuote)) >= k + 2
GrammarReply(line) == Begins(line, kReply) /\ Len(line) >= Len(kReply) + 2
GrammarUntwit(line) == toLowerCase(line) \in { kUntwit, kUntwit \o << "!" >> }
GrammarSup(line) == Begins(line, kSup) /\ IsToken(Rest(line, kSup))
GrammarSeen(line) == Begins(line, kSeen) /\ IsToken(TrimEnd(Rest(line, kSeen)))

\* the first of the six rules whose grammar line matches, and its result
FirstRule(line, mimeChecks) ==
    IF GrammarTwit(line) THEN parseTwitCommand(line, mimeChecks)
    ELSE IF GrammarQuote(line) THEN parseQuoteCommand(line, mimeChecks)
    ELSE IF GrammarReply(line) THEN parseReplyCommand(line, mimeChecks)
    ELSE IF GrammarUntwit(line) THEN parseUntwitCommand(line)
    ELSE IF GrammarSup(line) THEN parseSupCommand(line)
    ELSE IF GrammarSeen(line) THEN parseSeenCommand(line)
    ELSE Null

RuleName(line) ==
    IF GrammarTwit(line) THEN "twit"
    ELSE IF GrammarQuote(line) THEN "quote"
    ELSE IF GrammarReply(line) THEN "reply"
    ELSE IF GrammarUntwit(line) THEN "untwit"
    ELSE IF GrammarSup(line) THEN "sup"
    ELSE IF GrammarSeen(line) THEN "seen"
    ELSE "null"

QuoteUnstored(id) ==
    \/ /\ Resumed(id, "quote")
       /\ toLowerCase(h[id].cmd.targetNick) \notin DOMAIN messageHistory
    \/ Awaiting(id, "show") /\ h[id].cmd.type = "quote"

QuoteFallsThrough ==
    \A id \in InFlight :
        QuoteUnstored(id) /\ Moved(id)
            => /\ UNCHANGED << feed, posted >>
               /\ \/ /\ id \notin InFlight'
                     /\ last'.done /\ last'.uri = None
                     /\ toLowerCase(h[id].nick) \in DOMAIN messageHistory'
                     /\ messageHistory'[toLowerCase(h[id].nick)] = h[id].msg
                  \/ /\ id \in InFlight'
                     /\ h'[id].pc = "show"

\* C11: a quote whose lower-cased target nick has no stored message
\* publishes nothing, and when its handler returns the quote line is the
\* sender's messageHistory entry
QuoteWithoutHistory == [][QuoteFallsThrough]_vars

\* C11: a quote naming a nick without a stored message has just returned
\* without a remote call or an answer, and its line is the sender's entry
QuoteLineStored ==
    /\ last.done /\ last.cmd.type = "quote"
    /\ last.calls = << >> /\ last.out = << >> /\ last.uri = None
    /\ posted = 0
    /\ messageHistory[toLowerCase(last.nick)] = last.msg

\* the text a quote publishes for the stored message m
QuoteText(m, additionalText) ==
    IF additionalText.some THEN m \o << " " >> \o additionalText.v ELSE m

QuotePublishesStored ==
    \A id \in InFlight :
        /\ Resumed(id, "quote") /\ HasHistory(wantHistory, h[id].cmd.targetNick)
                /\ Moved(id)
            => id \in InFlight' /\ h'[id].pc = "post"
        /\ Awaiting(id, "post") /\ h[id].cmd.type = "quote" /\ posted' # posted
            => PostOf(feed', posted').text
                 = QuoteText(wantHistory[toLowerCase(h[id].cmd.targetNick)],
                             h[id].cmd.additionalText)

SameNick(a, b) == toLowerCase(a) = toLowerCase(b)

\* the calls among the first k of updates that were made for nick n
CallsFor(n, k) == { j \in 1..k : SameNick(updates[j].nick, n) }

\* the latest call made for nick n
LatestFor(n) ==
    updates[CHOOSE j \in CallsFor(n, Len(updates)) :
                \A i \in CallsFor(n, Len(updates)) : i <= j]

\* C13: after any sequence of updateSeen calls the seen table holds at most
\* one row per lower-cased nick, and getSeen of a nick in any letter case
\* returns the message and the channel of the latest call made for that
\* nick, or null if none was made
SeenIsLatest ==
    /\ \A r1, r2 \in seenDb : SameNick(r1.who, r2.who) => r1 = r2
    /\ \A n \in SeenNicks :
        IF CallsFor(n, Len(updates)) = {} THEN getSeen(seenDb, n) = None
        ELSE /\ getSeen(seenDb, n).some
             /\ getSeen(seenDb, n).v.what = LatestFor(n).what
             /\ getSeen(seenDb, n).v.where = LatestFor(n).where

\* C13: a nick was seen twice, written in two letter cases, with different
\* messages in different channels, and another nick was seen in between
SeenInTwoCases ==
    /\ Len(updates) = 3
    /\ SameNick(updates[1].nick, updates[3].nick)
    /\ updates[1].nick # updates[3].nick
    /\ ~SameNick(updates[1].nick, updates[2].nick)
    /\ updates[1].what # updates[3].what /\ updates[1].where # updates[3].where
    /\ Cardinality(seenDb) = 2
    /\ getSeen(seenDb, updates[1].nick).v.what = updates[3].what

\* the seen record of nick is that of a line which, trimmed, is msg,
\* received in the channel at the present time
SeenAs(db, nick, msg) ==
    /\ getSeen(db, nick).some
    /\ trim(getSeen(db, nick).v.what) = msg
    /\ getSeen(db, nick).v.where = Channel
    /\ getSeen(db, nick).v.when = now \div 1000

\* a line is received: its handler starts, not yet parsed, with the seen
\* record of its nick already that of the line
SeenOnReceipt ==
    /\ lines' # lines => InFlight' # InFlight
    /\ \A id \in InFlight' \ InFlight :
        /\ lines' = lines + 1
        /\ h'[id].pc = "parse" /\ h'[id].cmd = Pending
        /\ SeenAs(seenDb', h'[id].nick, h'[id].msg)

\* C14: every line received in the channel from a nick other than the bot
\* has updated the seen record of that nick when its handler starts, before
\* the line is parsed and dispatched, and the record is there whatever the
\* line is then recognized as
SeenBeforeDispatch ==
    /\ [][SeenOnReceipt]_vars
    /\ [](\A id \in InFlight : getSeen(seenDb, h[id].nick).some)
    /\ [](last.done => getSeen(seenDb, last.nick).some)

\* C14: a line sent with a blank at its end awaits parseCommand and the
\* seen record of its nick holds it as it was sent
SeenHoldsRawLine ==
    \E id \in InFlight :
        /\ Awaiting(id, "parse")
        /\ getSeen(seenDb, h[id].nick).some
        /\ getSeen(seenDb, h[id].nick).v.what # h[id].msg
        /\ trim(getSeen(seenDb, h[id].nick).v.what) = h[id].msg

\* the places of t at which u appears, and the first of them
PlacesOf(t, u) == { i \in 1..Len(t) : i + Len(u) - 1 <= Len(t) /\ SubSeq(t, i, i + Len(u) - 1) = u }
FirstPlace(t, u) == CHOOSE i \in PlacesOf(t, u) : \A j \in PlacesOf(t, u) : i <= j

\* C15: the image urls extractImageUrls returns for a text appear in the
\* text, and are listed in the order of their first appearance in it,
\* whether they were recognized by extension or by probe
ImagesInTextOrder ==
    extracted # Pending /\ extracted.imageUrls.some
        => LET urls == extracted.imageUrls.v
           IN  /\ \A k \in 1..Len(urls) : PlacesOf(text, urls[k]) # {}
               /\ \A j, k \in 1..Len(urls) :
                    j < k => FirstPlace(text, urls[j]) <= FirstPlace(text, urls[k])

\* a url starts at place i of t: http or https, "://" and a character that
\* is no white space, in any letter case
UrlStartsAt(t, i) ==
    \E scheme \in { kHttp \o kColon, kHttp \o << "s" >> \o kColon } :
        /\ i + Len(scheme) <= Len(t)
        /\ toLowerCase(SubSeq(t, i, i + Len(scheme) - 1)) = scheme
        /\ t[i + Len(scheme)] \notin WhiteSpace

\* the place of the last character of the word that holds place i of t
WordEnd(t, i) ==
    CHOOSE e \in i..Len(t) :
        /\ \A k \in i..e : t[k] \notin WhiteSpace
        /\ e = Len(t) \/ t[e + 1] \in WhiteSpace

RECURSIVE UrlSpans(_, _)
\* the urls of t from place i on, as spans: a url runs from its start to
\* the end of its word
UrlSpans(t, i) ==
    IF \A s \in i..Len(t) : ~UrlStartsAt(t, s) THEN { }
    ELSE LET s == CHOOSE x \in i..Len(t) :
                    UrlStartsAt(t, x) /\ \A y \in i..(x - 1) : ~UrlStartsAt(t, y)
         IN  { << s, WordEnd(t, s) >> } \cup UrlSpans(t, WordEnd(t, s) + 1)

\* t without the characters at the places in gone
Without(t, gone) ==
    LET kept == SelectSeq([k \in 1..Len(t) |-> k], LAMBDA k : k \notin gone)
    IN  [k \in 1..Len(kept) |-> t[kept[k]]]

\* t without the urls of it that are among urls
WithoutUrls(t, urls) ==
    Without(t, UNION { ij[1]..ij[2] : ij \in { x \in UrlSpans(t, 1) :
                                        SubSeq(t, x[1], x[2]) \in urls } })

RECURSIVE WithoutStrings(_, _, _)
\* t from place i on without the occurrences of the strings among urls,
\* taken from left to right, the longest first
WithoutStrings(t, urls, i) ==
    IF i > Len(t) THEN << >>
    ELSE LET here == { u \in urls : u # << >> /\ i \in PlacesOf(t, u) }
         IN  IF here = {} THEN << t[i] >> \o WithoutStrings(t, urls, i + 1)
             ELSE LET u == CHOOSE x \in here : \A y \in here : Len(y) <= Len(x)
                  IN  WithoutStrings(t, urls, i + Len(u))

\* the urls extractImageUrls returned
Returned(x) == IF x.imageUrls.some THEN Range(x.imageUrls.v) ELSE {}

\* C16: the residual text extractImageUrls returns is the text with every
\* occurrence of a returned image url removed in full and nothing else
\* removed, then trimmed at both ends; an occurrence is a url of the text
\* equal to a returned one, or else any place where a returned one appears
ResidualIsTextLessImages ==
    extracted # Pending
        => \/ extracted.cleanText = trim(WithoutUrls(text, Returned(extracted)))
           \/ extracted.cleanText = trim(WithoutStrings(text, Returned(extracted), 1))

\* C17: the residual text of an extraction, fed back to extractImageUrls
\* with every url probed before getting the answer it got, yields no image
\* url and the same residual text
ExtractionIdempotent ==
    again # Pending => again.imageUrls = None /\ again.cleanText = extracted.cleanText

\* the first n elements of seq, or all of it when it has fewer
FirstOf(seq, n) == [k \in 1..(IF Len(seq) < n THEN Len(seq) ELSE n) |-> seq[k]]

\* C18, as the claim states it: the imageUrls of a twit, quote or reply
\* command that parseCommand returned holds at most 4 urls
CommandHoldsFour ==
    \A id \in InFlight :
        h[id].cmd.type \in { "twit", "quote", "reply" } /\ h[id].cmd.imageUrls.some
            => Len(h[id].cmd.imageUrls.v) <= 4

\* C18, amended: the command holds every image url of the line, and the cap
\* is on the post: every post of the account embeds at most 4 images, and
\* the post a twit, quote or reply has just created embeds the first 4 of
\* the command's imageUrls, or all of them when they are fewer
PostEmbedsFour ==
    /\ \A k \in 1..Len(feed) : Len(feed[k].images) <= 4
    /\ last.done /\ last.cmd.type \in { "twit", "quote", "reply" } /\ last.uri.some
        => PostOf(feed, last.uri.v).images
             = IF last.cmd.imageUrls.some THEN FirstOf(last.cmd.imageUrls.v, 4) ELSE << >>

\* C18: a twit whose command holds 5 image urls has just created a post,
\* which embeds 4 of them
FifthImageDropped ==
    /\ last.done /\ last.cmd.type = "twit" /\ last.uri.some
    /\ last.cmd.imageUrls.some /\ Len(last.cmd.imageUrls.v) = 5
    /\ Len(PostOf(feed, last.uri.v).images) = 4

\* C19: a url whose content-type probe fails, which isImageUrl answers with
\* false, is not returned as an image unless another probe of the same url
\* succeeded, and stays in the residual text; the extraction returns a
\* result, a text with or without a non-empty list of urls, whatever the
\* probes answer
FailedProbeKeepsUrl ==
    extracted # Pending
        => /\ extracted.imageUrls.some => extracted.imageUrls.v # << >>
           /\ \A k \in DOMAIN probes :
                ~probes[k]
                    => LET toCheck == urlsToCheck(text)
                       IN  /\ (\A j \in DOMAIN probes : toCheck[j] = toCheck[k] => ~probes[j])
                                => toCheck[k] \notin Returned(extracted)
                           /\ PlacesOf(extracted.cleanText, toCheck[k]) # {}

RECURSIVE UrlsFrom(_, _)
\* the urls of t from place i on, in the order of the text
UrlsFrom(t, i) ==
    IF \A s \in i..Len(t) : ~UrlStartsAt(t, s) THEN << >>
    ELSE LET s == CHOOSE x \in i..Len(t) :
                    UrlStartsAt(t, x) /\ \A y \in i..(x - 1) : ~UrlStartsAt(t, y)
         IN  << SubSeq(t, s, WordEnd(t, s)) >> \o UrlsFrom(t, WordEnd(t, s) + 1)

ImageExtensions ==
    { << "j", "p", "g" >>, << "j", "p", "e", "g" >>, << "p", "n", "g" >>,
      << "g", "i", "f" >>, << "w", "e", "b", "p" >>, << "b", "m", "p" >> }

\* the url u carries an image extension: after its scheme and at least one
\* more character comes a dot and an extension, in any letter case, at the
\* end of the url or before the "?" of a query string
HasImageExtension(u) ==
    \E ext \in ImageExtensions, d \in 1..Len(u) :
        /\ \E scheme \in { kHttp \o kColon, kHttp \o << "s" >> \o kColon } :
            /\ Len(scheme) < Len(u)
            /\ toLowerCase(SubSeq(u, 1, Len(scheme))) = scheme
            /\ d > Len(scheme) + 1
        /\ u[d] = "."
        /\ d + Len(ext) <= Len(u)
        /\ toLowerCase(SubSeq(u, d + 1, d + Len(ext))) = ext
        /\ d + Len(ext) = Len(u) \/ u[d + Len(ext) + 1] = "?"

\* C20: the urls extractImageUrls probes are the urls of the text that
\* carry no image extension, one probe for each occurrence, in the order of
\* the text; a text without a url is not probed
ProbesOnlyUnrecognized ==
    /\ urlsToCheck(text)
         = SelectSeq(UrlsFrom(text, 1), LAMBDA u : ~HasImageExtension(u))
    /\ DOMAIN probes = 1..Len(urlsToCheck(text))
    /\ UrlsFrom(text, 1) = << >> => probes = << >>

\* C21: when a text holds several urls without an image extension, every
\* probe is issued before any probe's answer is taken, and extractImageUrls
\* produces its result only after every probe has answered
ProbesRunTogether ==
    /\ settled # << >> => probing = urlsToCheck(text)
    /\ extracted # Pending =>
        /\ DOMAIN settled = DOMAIN urlsToCheck(text)
        /\ extracted = extractImageUrls(text, settled)

\* C21 witness: of three probes the last has answered first, the others are
\* still out
LastProbeAnsweredFirst ==
    /\ Len(urlsToCheck(text)) = 3
    /\ DOMAIN settled = {3}
    /\ extracted = Pending

\* C22: parseUntwitCommand returns an untwit without force exactly for the
\* line that is the word untwit in any letter case, an untwit with force
\* exactly for that word followed by "!", and null for every other line,
\* the word followed by any other character included
UntwitExactly ==
    output # Pending =>
        output = IF toLowerCase(input) = kUntwit
                 THEN [type |-> "untwit", force |-> FALSE]
                 ELSE IF toLowerCase(input) = kUntwit \o << "!" >>
                 THEN [type |-> "untwit", force |-> TRUE]
                 ELSE Null

\* C22 witness: parseUntwitCommand has returned null for the word untwit,
\* not in lower case, followed by "!" and a blank
UntwitThenBlankRefused ==
    /\ output = Null
    /\ toLowerCase(input) = kUntwit \o << "!", " " >>
    /\ input # toLowerCase(input)

\* the places j at which line, after the word seen in any letter case and a
\* run of blanks, holds one token free of blanks that runs to its end
SeenNickAt(line) ==
    { j \in 6..Len(line) :
        /\ toLowerCase(SubSeq(line, 1, 4)) = kSeen
        /\ \A k \in 5..(j - 1) : line[k] \in WhiteSpace
        /\ \A k \in j..Len(line) : line[k] \notin WhiteSpace }

\* C23: parseSeenCommand returns a seen command only for a line that is the
\* word seen in any letter case, blanks, and exactly one token free of blanks
\* (blanks after the token are trimmed away), and the nick is that token in
\* its own letter case; it returns null when the nick is missing or blank
\* and when further words follow the nick
SeenTakesOneToken ==
    output # Pending =>
        LET line == TrimEnd(input)
        IN  IF SeenNickAt(line) # {}
            THEN \E j \in SeenNickAt(line) :
                    output = [type |-> "seen", targetNick |-> SubSeq(line, j, Len(line))]
            ELSE output = Null

\* C23 witness: parseSeenCommand has returned the nick Al, in its letter
\* case, for a line whose keyword is written SeEn
SeenKeepsLetterCase ==
    /\ output # Pending /\ output # Null
    /\ output.targetNick = << "A", "l" >>
    /\ SubSeq(input, 1, 4) = << "S", "e", "E", "n" >>

\* what follows the first n characters of line and the blanks after them
ArgAfter(line, n) == TrimStart(SubSeq(line, n + 1, Len(line)))

\* t with each occurrence of a url among urls removed in full, then trimmed:
\* the occurrences are the urls of t equal to one of urls, or else the
\* places where one of urls appears
LessUrls(t, urls) == { trim(WithoutUrls(t, urls)), trim(WithoutStrings(t, urls, 1)) }

\* C24: the text of the command returned for a line twit <text> or
\* reply <text>, the keyword in any letter case, is <text> with every
\* returned image url removed and trimmed at both ends, and imageUrls is
\* absent when no image url was found and a non-empty list otherwise
TextIsArgumentLessImages ==
    output # Pending /\ output.type \in { "twit", "reply" }
        => LET arg == ArgAfter(input, IF output.type = "twit" THEN Len(kTwit) ELSE Len(kReply))
           IN  /\ output.text \in LessUrls(arg, Returned(output))
               /\ output.imageUrls = None
                    <=> /\ matchAll(arg, imageExtPattern, 1) = << >>
                        /\ \A k \in DOMAIN checks : ~checks[k]
               /\ output.imageUrls.some => output.imageUrls.v # << >>

\* the first token of t, which begins with no blank: its characters up to
\* the first blank
FirstToken(t) ==
    IF \E k \in 1..Len(t) : t[k] \in WhiteSpace
    THEN SubSeq(t, 1, (CHOOSE k \in 1..Len(t) :
                        t[k] \in WhiteSpace /\ \A j \in 1..(k - 1) : t[j] \notin WhiteSpace) - 1)
    ELSE t

\* C25: the command returned for a line quote <nick> [<rest>] names as
\* targetNick the first token after the keyword, and its additionalText is
\* absent when <rest> is absent or is empty once its returned image urls are
\* removed and it is trimmed, and is that trimmed residual otherwise
QuoteSplitsNickAndRest ==
    output # Pending /\ output.type = "quote"
        => LET arg == ArgAfter(input, Len(kQuote))
               rest == trim(SubSeq(arg, Len(FirstToken(arg)) + 1, Len(arg)))
           IN  /\ output.targetNick = FirstToken(arg)
               /\ output.additionalText
                    \in { IF r = << >> THEN None ELSE Some(r) :
                            r \in LessUrls(rest, Returned(output)) }

QuotePublishesOnNewLine ==
    \A id \in InFlight :
        (/\ Awaiting(id, "post") /\ h[id].cmd.type = "quote"
         /\ h[id].cmd.additionalText.some /\ posted' # posted)
            => PostOf(feed', posted').text
                 = wantHistory[toLowerCase(h[id].cmd.targetNick)]
                     \o << "\n" >> \o h[id].cmd.additionalText.v

\* C26: with the lines processed one at a time, a quote with additional
\* text publishes the target nick's last message followed by the
\* additional text on a new line
QuoteTextOnNewLine == [][QuotePublishesOnNewLine]_vars

UntwitClearsItsOwn ==
    \A id \in InFlight :
        (/\ Awaiting(id, "delete") /\ Moved(id)
         /\ last'.done /\ last'.uri.some)
            => /\ lastPostUri' = None /\ lastPostTimestamp' = None
               /\ lastPostUri.some => lastPostUri.v = last'.uri.v

\* C27: however the message handler executions interleave, an untwit that
\* has deleted a post clears lastPostUri and lastPostTimestamp, and the
\* reference it clears is that of the post it deleted: the reference a twit
\* wrote while the untwit was waiting on its remote calls is not discarded
UntwitClearsDeletedPost == [][UntwitClearsItsOwn]_vars

\* C28: lastPostUri and lastPostTimestamp are both null or both set, in
\* every state, however the handler executions interleave
LastPostHasUriAndTime == lastPostUri.some <=> lastPostTimestamp.some

\* C28 witness: an untwit has deleted the post a twit had recorded, and
\* both are null again
LastPostForgotten ==
    /\ last.done /\ last.cmd.type = "untwit" /\ last.uri.some
    /\ posted > 0 /\ last.uri.v = posted
    /\ lastPostUri = None /\ lastPostTimestamp = None

\* handler id is a twit whose postToBluesky returns success in this step
TwitSucceeds(id) ==
    /\ Awaiting(id, "post") /\ h[id].cmd.type = "twit"
    /\ Moved(id) /\ last'.done /\ last'.uri.some

\* handler id is an untwit whose deletePost returns success in this step
UntwitSucceeds(id) ==
    /\ Awaiting(id, "delete") /\ h[id].cmd.type = "untwit"
    /\ Moved(id) /\ last'.done /\ last'.uri.some

LastPostChanges ==
    /\ \A id \in InFlight :
            TwitSucceeds(id)
                => /\ lastPostUri' = Some(posted') /\ posted' = posted + 1
                   /\ lastPostTimestamp' = Some(now)
    /\ \A id \in InFlight :
            UntwitSucceeds(id) => lastPostUri' = None /\ lastPostTimestamp' = None
    /\ (\A id \in InFlight : ~TwitSucceeds(id) /\ ~UntwitSucceeds(id))
            => UNCHANGED << lastPostUri, lastPostTimestamp >>

CallsAfter(id) == IF id \in InFlight' THEN h'[id].calls ELSE last'.calls

ImageFailurePublishesNothing ==
    \A id \in InFlight :
        Embedding(id) /\ Moved(id)
            => /\ UNCHANGED << feed, posted >>
               /\ ~CallsAfter(id)[Len(CallsAfter(id))]
                    => /\ id \notin InFlight'
                       /\ last'.done /\ last'.uri = None /\ last'.out = << Say("no") >>
                       /\ UNCHANGED << lastPostUri, lastPostTimestamp >>

\* C30: when the fetch or the upload of one of the images of a post fails,
\* postToBluesky returns failure without creating the post, the bot answers
\* "no" and nothing else, and lastPostUri and lastPostTimestamp stay as
\* they were
FailedImageNoPost == [][ImageFailurePublishesNothing]_vars

\* C30 witness: a twit with five image urls has answered "no" because an
\* image could not be embedded, and the account holds the post it began with
TwitImageFailed ==
    /\ last.done /\ last.cmd.type = "twit" /\ last.out = << Say("no") >>
    /\ last.cmd.imageUrls.some /\ Len(last.cmd.imageUrls.v) = 5
    /\ last.calls = << FALSE >>
    /\ feed = << OldPost >>

PostTakesFirstFour ==
    \A id \in InFlight :
        (Awaiting(id, "post") /\ Moved(id) /\ posted' # posted)
            => LET images == PostOf(feed', posted').images
                   urls == IF h[id].cmd.imageUrls.some THEN h[id].cmd.imageUrls.v ELSE << >>
               IN  /\ Len(images) = IF Len(urls) < 4 THEN Len(urls) ELSE 4
                   /\ \A k \in 1..Len(images) : images[k] = urls[k]

\* C31: the post a command publishes embeds at most 4 images, the first
\* four urls of the command's imageUrls in their order, and a command with
\* more urls publishes all the same, without the others
PublishedTakesFirstFour == [][PostTakesFirstFour]_vars

\* C31 witness: a twit naming five different image urls has published a
\* post with four images, and the fifth url is not among them
FifthUrlLeftOut ==
    /\ last.done /\ last.cmd.type = "twit" /\ last.uri.some
    /\ last.out = << Say("ok") >>
    /\ last.cmd.imageUrls.some /\ Len(last.cmd.imageUrls.v) = 5
    /\ Cardinality(Range(last.cmd.imageUrls.v)) = 5
    /\ Len(PostOf(feed, last.uri.v).images) = 4
    /\ last.cmd.imageUrls.v[5] \notin Range(PostOf(feed, last.uri.v).images)

\* the handler has just returned from a message event without handling it
JustIgnored(l) == ~l.done /\ "ignored" \in DOMAIN l

IgnoredLeavesAll ==
    /\ JustIgnored(last')
        => /\ last'.nick = BotNick \/ last'.target # Channel
           /\ UNCHANGED << seenDb, messageHistory, lastPostUri, lastPostTimestamp,
                           lastBskyUrl, h, feed, posted, lines, observed >>
    /\ lines' # lines
        => /\ ~JustIgnored(last')
           /\ \E id \in InFlight' \ InFlight : h'[id].nick # BotNick

\* C32: a message event whose nick is the bot's own, or whose target is not
\* the channel, changes neither the seen table nor messageHistory,
\* lastPostUri, lastPostTimestamp or lastBskyUrl, starts no handler
\* execution and so no remote call, and sends nothing; the lines that are
\* handled come from other nicks
IgnoredChangesNothing == [][IgnoredLeavesAll]_vars

\* C32 witness: a message of another nick sent to the bot, not the channel,
\* was ignored while a handler execution was in progress, and the seen
\* table holds one row
PrivateMessageIgnored ==
    /\ JustIgnored(last) /\ last.nick # BotNick /\ last.target # Channel
    /\ InFlight # {} /\ Cardinality(seenDb) = 1

\* C33: every twit or reply command parseCommand returns carries a text
\* that is not empty
TextCommandHasText ==
    output # Pending /\ output.type \in { "twit", "reply" } => output.text # << >>

RuleNames == { "twit", "quote", "reply", "untwit", "sup", "seen" }

\* what the rule named r returns for line, tried on its own
RuleResult(r, line, mimeChecks) ==
    CASE r = "twit" -> parseTwitCommand(line, mimeChecks)
      [] r = "quote" -> parseQuoteCommand(line, mimeChecks)
      [] r = "reply" -> parseReplyCommand(line, mimeChecks)
      [] r = "untwit" -> parseUntwitCommand(line)
      [] r = "sup" -> parseSupCommand(line)
      [] r = "seen" -> parseSeenCommand(line)

SaidOnce(said) == \A i, j \in DOMAIN said : said[i] = said[j] => i = j
EchoedOnceSeenGrows ==
    [][ /\ SaidOnce(echoed')
        /\ lastSeenNotificationTime.some =>
               /\ lastSeenNotificationTime'.some
               /\ lastSeenNotificationTime'.v >= lastSeenNotificationTime.v ]_vars
\* two polls were under way at once, the second of them was answered with a
\* notification that the first had already said, and said nothing
OverlappingPollsSaidOnce ==
    /\ Len(poll) = 2 /\ polled.done /\ polled.ok /\ ~polled.first
    /\ polled.said = << >> /\ echoed # << >>
    /\ \E c \in DOMAIN poll : c # polled.chain /\ poll[c].pc = "mark"

\* C36: while the timers keep firing and the polls keep succeeding, every
\* mention or reply notification that arrived after the first successful
\* poll is eventually said to the channel, and a poll that takes the
\* first-poll branch says nothing
NotificationAt(t) == inbox[Len(inbox) + 1 - t]
Said(t) == \E i \in DOMAIN echoed : echoed[i] = t
LateNotificationEchoed ==
    /\ \A t \in 1..MaxNotifications :
           (t \in late /\ isMentionOrReply(NotificationAt(t))) ~> Said(t)
    /\ [](polled.done /\ polled.first => polled.said = << >>)

\* C37: a poll that fails schedules the next poll after twice the delay
\* that preceded the failed poll, or after POLL_INTERVAL_MAX if that is
\* less
Doubled(delay) ==
    IF 2 * delay < POLL_INTERVAL_MAX THEN 2 * delay ELSE POLL_INTERVAL_MAX
FailureDoublesDelay ==
    polled.done /\ ~polled.ok /\ polled.waited.some
        => polled.next = Doubled(polled.waited.v)

\* C38: a poll that completes without an error leaves consecutiveErrors at
\* 0 and schedules the next poll after POLL_INTERVAL_BASE
SuccessResetsBackoff ==
    polled.done /\ polled.ok
        => consecutiveErrors = 0 /\ polled.next = POLL_INTERVAL_BASE

\* C39: once the bot has joined, exactly one poll is scheduled or under
\* way, whatever joins follow
OnePollingChain == joins > 0 => Len(poll) = 1

====
